---- MODULE Spec2Model ----
(***************************************************************************)
(* Model of the NexusBridge installer (Nexus collection -> MO2 instance).  *)
(*                                                                         *)
(* The module holds several specifications over one set of variables:     *)
(*   SpecDriver  main(): parse of the descriptor, download pool, retry     *)
(*               waves, failure prompt, install pool, generation of        *)
(*               plugins.txt / modlist.txt, exit code.                     *)
(*   SpecRate    NexusAPI::rateLimitWait under concurrent callers.         *)
(*   SpecScan    the scan of the downloads folder and the install tasks.   *)
(*   SpecFomod   FomodInstaller::process.                                  *)
(*   SpecSort    ModListGenerator::generateModOrderCombined.               *)
(* Every specification initialises the variables of the other parts to a   *)
(* fixed idle value and leaves them unchanged.                             *)
(***************************************************************************)
EXTENDS Integers, Sequences, FiniteSets, TLC

(***************************************************************************)
(* Bounds of the model.                                                    *)
(***************************************************************************)
\* number of mods of the collection handed to the driver
NumDriverMods == 3
\* std::thread::hardware_concurrency() clamped by main(); the model runs the
\* pools with this many workers
NumThreads == 2
\* granularity of the clock and the time the model follows the client, in ms
TickMs == 50
MaxClockMs == 300
\* number of requests followed
MaxRequests == 3
\* number of mods of the collection handed to the archive scan
NumScanMods == 2
\* number of files in the downloads folder when the scan starts
MaxDirFiles == 2
\* number of <installStep> elements, and of steps in the choices
NumFomodSteps == 2
\* number of <plugin> elements of a group
NumPlugins == 2
\* number of mods handed to the mod-order generator
NumSortMods == 3
\* number of mod rules of the collection
MaxRules == 2
MaxNodes == 2

(***************************************************************************)
(* Program constants.                                                      *)
(***************************************************************************)
maxRetries == 3
RetryThreadCap == 4
\* NexusAPI::rateLimitWait: "wait 100ms between requests"
RateLimitMs == 100

VARIABLES
  \* ---- driver: main() ----
  pc,               \* position of main()
  descriptor,       \* shape of the collection JSON handed to CollectionParser::parse
  parseResult,      \* "none" | "true" | "false": what CollectionParser::parse returned
  autoYes,          \* --yes
  downloadTasks,    \* std::vector<DownloadTask>, here the modIndex of each
  modArchivePaths,  \* std::map<size_t,string>: the mod indices that have an archive
  failedIndices,    \* std::vector<size_t> failedIndices
  tasks,            \* the vector the running pass works on (downloadTasks or retryTasks)
  taskIdx,          \* std::atomic<size_t> downloadIndex / retryIndex
  retry,            \* loop variable of the retry loop; 0 during the first pass
  dw,               \* download workers: [pc, idx]
  downloadedCount,  \* std::atomic<int> downloadedCount
  installTasks,     \* std::vector<InstallTask>, here the mod index of each
  taskIndex,        \* std::atomic<size_t> taskIndex
  iw,               \* install workers: [pc, idx]
  g_installed,      \* std::atomic<int> g_installed
  g_failed,         \* std::atomic<int> g_failed
  exitCode,         \* return value of main(), -1 while running
  \* ---- history of the run (what happened, not program state) ----
  attempted,        \* pass -> mods whose download was attempted in that pass
  failedIn,         \* pass -> mods whose download failed in that pass
  passRan,          \* passes that have been started
  reported,         \* mods listed under "failed to download", or NotReported
  asked,            \* "none" | "prompt" | "auto": how the driver went on after failures
  installLog,       \* install task -> its runs: [processFailed, counted]
  generated,        \* <<plugins.txt written, modlist.txt written>>
  \* ---- NexusAPI client shared by the download workers ----
  now,              \* std::chrono::steady_clock::now(), in milliseconds
  lastRequest,      \* NexusAPI::lastRequest
  rw,               \* callers of getDownloadLinks: [pc, wake]
  requestTimes,     \* start time of every request sent through the client
  \* ---- archive scan (Phase 1) and the install tasks built from it ----
  scanPc,           \* "scan" | "download" | "build" | "built"
  scanMods,         \* collection.mods (folderName is filled by the scan)
  downloadsDir,     \* fs::directory_iterator(downloadsDir): [name, size] in listing order
  modsDirNonEmpty,  \* folders under <mo2>/mods that exist and are not empty
  scanPos,          \* loop variable i of the scan, then of the download tasks
  scanSkipped,      \* int skipped
  modFolderNames,   \* std::map<size_t,string> modFolderNames
  scanArchivePaths, \* std::map<size_t,string> modArchivePaths, with the paths
  scanDownloadTasks,\* std::vector<DownloadTask> downloadTasks, with the fields
  scanInstallTasks, \* std::vector<InstallTask> installTasks, with the paths
  \* ---- FomodInstaller::process ----
  fomodPc,          \* "idle" | "load" | "required" | "steps" | "done"
  fomodXml,         \* the <installStep> elements of ModuleConfig.xml
  fomodChoices,     \* const FomodChoices& choices (choices.steps)
  fomodStep,        \* position of the loop over installSteps
  fomodFlags,       \* std::map<std::string,std::string> flags
  fomodPatterns,    \* the <pattern> elements of conditionalFileInstalls
  fomodInstalled,   \* sources copied below dstRoot
  fomodDest,        \* dstRoot exists
  fomodResult,      \* "none" | "true" | "false": what process returned
  fomodWritten,     \* the files installFile has copied, in the order of the copies
  fomodContent,     \* destination path -> the file whose content it holds
  \* ---- ModListGenerator::generateModOrderCombined ----
  sortPc,           \* "idle" | "build" | "dfs" | "kahn" | "final" | "done"
  sortMods,         \* const std::vector<ModInfo>& mods (numbered from 1)
  sortRules,        \* const std::vector<ModRule>& rules
  sortPluginFiles,  \* the files found below modsDir/<folder> of each mod
  modPluginPos,     \* std::vector<int> modPluginPos
  successors,       \* std::vector<std::vector<int>> successors
  predecessors,     \* std::vector<std::vector<int>> predecessors
  dfsRank,          \* std::vector<int> dfsRank
  kahnRank,         \* std::vector<int> kahnRank
  finalIndices,     \* std::vector<int> finalIndices
  modOrder,         \* the returned folder names, top line of modlist.txt first
  \* ---- the files of one install: installMod and the FOMOD file copies ----
  treePc,           \* position in installMod
  disk,             \* the directories and files below extractPath and destModPath
  listUp,           \* which of two opposite orders directory iterators list in
  treeModName,      \* task.modName
  actualContent,    \* std::string actualContent
  nodesRun,         \* number of <file>/<folder> nodes the FOMOD engine has installed
  \* ---- main: the game path for plugins.txt ----
  gpPc,             \* "idle" | "stock" | "ini" | "steam" | "use" | "done"
  gpExists,         \* the paths fs::exists answers true for
  gpIni,            \* ModOrganizer.ini: whether it opens, and its lines
  gpHome,           \* getenv("HOME"), empty when unset
  gamePath,         \* std::string gamePath
  gpUsed,           \* "none" | "loot" | "collection": where pluginOrder came from
  \* ---- httpGet ----
  httpPc,           \* "idle" | "loop" | "sleep" | "returned"
  httpAttempt,      \* int attempt
  httpResponse,     \* std::string response
  httpLog,          \* what the call has done so far: transfers and pauses, in order
  \* ---- FomodParser::process ----
  fpPc,             \* "idle" | "start" | "done"
  fpLocated,        \* findFomodXml found a ModuleConfig.xml
  fpXml,            \* what TinyXML::Parser::parse returns for it
  fpChoices,        \* const TinyJson::Value& choices
  fpDest,           \* the files below destRoot
  fpResult          \* "none" | "true" | "false": what process returned

driverVars == <<pc, descriptor, parseResult, autoYes, downloadTasks, modArchivePaths, failedIndices, tasks,
                taskIdx, retry, dw, downloadedCount, installTasks, taskIndex, iw,
                g_installed, g_failed, exitCode, attempted, failedIn, passRan,
                reported, asked, installLog, generated>>

rateVars == <<now, lastRequest, rw, requestTimes>>

scanVars == <<scanPc, scanMods, downloadsDir, modsDirNonEmpty, scanPos, scanSkipped,
              modFolderNames, scanArchivePaths, scanDownloadTasks, scanInstallTasks>>

fomodVars == <<fomodPc, fomodXml, fomodChoices, fomodStep, fomodFlags, fomodPatterns,
               fomodInstalled, fomodDest, fomodResult, fomodWritten, fomodContent>>

sortVars == <<sortPc, sortMods, sortRules, sortPluginFiles, modPluginPos, successors,
              predecessors, dfsRank, kahnRank, finalIndices, modOrder>>

treeVars == <<treePc, disk, listUp, treeModName, actualContent, nodesRun>>

gamePathVars == <<gpPc, gpExists, gpIni, gpHome, gamePath, gpUsed>>

httpVars == <<httpPc, httpAttempt, httpResponse, httpLog>>

fomodParserVars == <<fpPc, fpLocated, fpXml, fpChoices, fpDest, fpResult>>

vars == <<driverVars, rateVars, scanVars, fomodVars, sortVars, treeVars, gamePathVars, httpVars, fomodParserVars>>

\* the variables of the other parts, for the actions of each part
otherThanDriver == <<rateVars, scanVars, fomodVars, sortVars, treeVars, gamePathVars, httpVars, fomodParserVars>>
otherThanRate == <<driverVars, scanVars, fomodVars, sortVars, treeVars, gamePathVars, httpVars, fomodParserVars>>
otherThanScan == <<driverVars, rateVars, fomodVars, sortVars, treeVars, gamePathVars, httpVars, fomodParserVars>>
otherThanFomod == <<driverVars, rateVars, scanVars, sortVars, treeVars, gamePathVars, httpVars, fomodParserVars>>
otherThanSort == <<driverVars, rateVars, scanVars, fomodVars, treeVars, gamePathVars, httpVars, fomodParserVars>>
otherThanTree == <<driverVars, rateVars, scanVars, fomodVars, sortVars, gamePathVars, httpVars, fomodParserVars>>
otherThanGamePath == <<driverVars, rateVars, scanVars, fomodVars, sortVars, treeVars, httpVars, fomodParserVars>>
otherThanHttp == <<driverVars, rateVars, scanVars, fomodVars, sortVars, treeVars, gamePathVars, fomodParserVars>>
otherThanFomodParser == <<driverVars, rateVars, scanVars, fomodVars, sortVars, treeVars, gamePathVars, httpVars>>

(***************************************************************************)
(* Helpers.                                                                *)
(***************************************************************************)
Min(a, b) == IF a < b THEN a ELSE b

\* the elements of a sequence
Range(s) == {s[i] : i \in 1..Len(s)}

\* ascending sequence of the members of a finite set of integers
RECURSIVE SortedSeq(_)
SortedSeq(S) ==
  IF S = {} THEN <<>>
  ELSE LET m == CHOOSE x \in S : \A y \in S : x <= y
       IN <<m>> \o SortedSeq(S \ {m})

DriverMods == 0..(NumDriverMods - 1)
Threads == 1..NumThreads
Passes == 0..maxRetries
NotReported == {-1}

(***************************************************************************)
(* SpecDriver: main() from the end of the archive scan to its return.      *)
(***************************************************************************)

\* One thread of a pool: parked, at fetch_add, running its task, or returned.
WorkerIdle == [pc |-> "idle", idx |-> 0]

\* thread::join on every thread of a pool: all of them have returned
AllJoinedFirstOnly(pool, n) == pool[1].pc = "exit"
AllJoined(pool, n) == \A t \in 1..n : pool[t].pc = "exit"

\* threads 1..n of a pool start their worker function
Spawn(n) == [t \in Threads |-> IF t <= n THEN [pc |-> "fetch", idx |-> 0] ELSE WorkerIdle]

\* Result of the archive scan: each mod was skipped, has an archive already,
\* or needs a download.  downloadTasks holds the latter in collection order.
\* the shapes of the top-level JSON: not parseable, an object without "mods",
\* an object whose "mods" is not an array, an object with a "mods" array
Descriptors == {"badJson", "noMods", "modsNotArray", "mods"}

DriverStart ==
  /\ pc = "parse"
  /\ descriptor \in Descriptors
  /\ parseResult = "none"
  /\ autoYes \in BOOLEAN
  /\ downloadTasks = <<>>
  /\ modArchivePaths = {}
  /\ failedIndices = <<>>
  /\ tasks = <<>>
  /\ taskIdx = 0
  /\ retry = 0
  /\ dw = [t \in Threads |-> WorkerIdle]
  /\ downloadedCount = 0
  /\ installTasks = <<>>
  /\ taskIndex = 0
  /\ iw = [t \in Threads |-> WorkerIdle]
  /\ g_installed = 0
  /\ g_failed = 0
  /\ exitCode = -1
  /\ attempted = [k \in Passes |-> {}]
  /\ failedIn = [k \in Passes |-> {}]
  /\ passRan = {}
  /\ reported = NotReported
  /\ asked = "none"
  /\ installLog = <<>>
  /\ generated = <<FALSE, FALSE>>

\* the driver before main() runs
DriverIdle ==
  /\ pc = "idle"
  /\ descriptor = "mods"
  /\ parseResult = "none"
  /\ autoYes = FALSE
  /\ downloadTasks = <<>>
  /\ modArchivePaths = {}
  /\ failedIndices = <<>>
  /\ tasks = <<>>
  /\ taskIdx = 0
  /\ retry = 0
  /\ dw = [t \in Threads |-> WorkerIdle]
  /\ downloadedCount = 0
  /\ installTasks = <<>>
  /\ taskIndex = 0
  /\ iw = [t \in Threads |-> WorkerIdle]
  /\ g_installed = 0
  /\ g_failed = 0
  /\ exitCode = -1
  /\ attempted = [k \in Passes |-> {}]
  /\ failedIn = [k \in Passes |-> {}]
  /\ passRan = {}
  /\ reported = NotReported
  /\ asked = "none"
  /\ installLog = <<>>
  /\ generated = <<FALSE, FALSE>>

\* the client before it is constructed
RateIdle ==
  /\ now = 0
  /\ lastRequest = 0
  /\ rw = [t \in Threads |-> [pc |-> "idle", wake |-> 0]]
  /\ requestTimes = <<>>

\* the scan before main() runs
ScanIdle ==
  /\ scanPc = "idle"
  /\ scanMods = <<>>
  /\ downloadsDir = <<>>
  /\ modsDirNonEmpty = {}
  /\ scanPos = 0
  /\ scanSkipped = 0
  /\ modFolderNames = <<>>
  /\ scanArchivePaths = <<>>
  /\ scanDownloadTasks = <<>>
  /\ scanInstallTasks = <<>>

\* the FOMOD engine before process() is called
FomodIdle ==
  /\ fomodPc = "idle"
  /\ fomodXml = <<>>
  /\ fomodChoices = <<>>
  /\ fomodStep = 0
  /\ fomodFlags = <<>>
  /\ fomodPatterns = <<>>
  /\ fomodInstalled = {}
  /\ fomodDest = FALSE
  /\ fomodResult = "none"
  /\ fomodWritten = <<>>
  /\ fomodContent = <<>>

\* the mod-order generator before it is called
SortIdle ==
  /\ sortPc = "idle"
  /\ sortMods = <<>>
  /\ sortRules = <<>>
  /\ sortPluginFiles = <<>>
  /\ modPluginPos = <<>>
  /\ successors = <<>>
  /\ predecessors = <<>>
  /\ dfsRank = <<>>
  /\ kahnRank = <<>>
  /\ finalIndices = <<>>
  /\ modOrder = <<>>

TreeIdle ==
  /\ treePc = "idle"
  /\ disk = [dirs |-> {}, files |-> {}]
  /\ listUp = TRUE
  /\ treeModName = <<>>
  /\ actualContent = <<>>
  /\ nodesRun = 0

GamePathIdle ==
  /\ gpPc = "idle"
  /\ gpExists = {}
  /\ gpIni = [opens |-> FALSE, lines |-> <<>>]
  /\ gpHome = <<>>
  /\ gamePath = <<>>
  /\ gpUsed = "none"

HttpIdle ==
  /\ httpPc = "idle"
  /\ httpAttempt = 0
  /\ httpResponse = <<>>
  /\ httpLog = <<>>

FomodParserIdle ==
  /\ fpPc = "idle"
  /\ fpLocated = FALSE
  /\ fpXml = <<>>
  /\ fpChoices = <<>>
  /\ fpDest = {}
  /\ fpResult = "none"

DriverInit == DriverStart /\ RateIdle /\ ScanIdle /\ FomodIdle /\ SortIdle /\ TreeIdle /\ GamePathIdle /\ HttpIdle /\ FomodParserIdle

installUnchanged == <<installTasks, taskIndex, iw, g_installed, g_failed, installLog, generated,
                      descriptor, parseResult, otherThanDriver>>

\* what the steps before Phase 1b leave alone
startupUnchanged == <<autoYes, failedIndices, tasks, taskIdx, retry, dw, downloadedCount,
                      attempted, failedIn, passRan, reported, asked>>

\* CollectionParser::parse: json::parse throws on text that is no JSON and the
\* catch returns false; "mods" is read only if present and an array, and true
\* is returned in every other case.  main() returns 1 when parse fails.
CollectionParse(shape) == shape # "badJson"

\* collection.mods after parse
CollectionMods(shape) == IF shape = "mods" THEN DriverMods ELSE {}

ParseCollection ==
  /\ pc = "parse"
  /\ IF CollectionParse(descriptor)
     THEN parseResult' = "true" /\ pc' = "validate" /\ UNCHANGED exitCode
     ELSE parseResult' = "false" /\ pc' = "exit" /\ exitCode' = 1
  /\ UNCHANGED <<descriptor, downloadTasks, modArchivePaths, installTasks, taskIndex, iw,
                 g_installed, g_failed, installLog, generated, otherThanDriver>>
  /\ UNCHANGED startupUnchanged

\* if (!nexus.validateKey()) return 1;  if (!nexus.isPremium) return 1;
ValidateKey ==
  /\ pc = "validate"
  /\ \E premiumKey \in BOOLEAN :
       IF premiumKey
       THEN pc' = "scan" /\ UNCHANGED exitCode
       ELSE pc' = "exit" /\ exitCode' = 1
  /\ UNCHANGED <<descriptor, parseResult, downloadTasks, modArchivePaths, installTasks,
                 taskIndex, iw, g_installed, g_failed, installLog, generated,
                 otherThanDriver>>
  /\ UNCHANGED startupUnchanged

\* Phase 1: every mod of the collection is skipped, has an archive in the
\* downloads folder, or gets a DownloadTask
ScanArchives ==
  /\ pc = "scan"
  /\ \E scan \in [CollectionMods(descriptor) -> {"skip", "have", "need"}] :
       /\ downloadTasks' = SortedSeq({m \in CollectionMods(descriptor) : scan[m] = "need"})
       /\ modArchivePaths' = {m \in CollectionMods(descriptor) : scan[m] = "have"}
  /\ pc' = "phase1b"
  /\ UNCHANGED <<descriptor, parseResult, installTasks, taskIndex, iw, g_installed,
                 g_failed, installLog, generated, exitCode, otherThanDriver>>
  /\ UNCHANGED startupUnchanged

\* if (!downloadTasks.empty()) { ... initial download pass: numThreads workers
StartDownloads ==
  /\ pc = "phase1b"
  /\ IF downloadTasks # <<>>
     THEN /\ pc' = "pass"
          /\ tasks' = downloadTasks
          /\ dw' = Spawn(NumThreads)
          /\ passRan' = passRan \cup {0}
     ELSE /\ pc' = "phase2"
          /\ UNCHANGED <<tasks, dw, passRan>>
  /\ UNCHANGED <<autoYes, downloadTasks, modArchivePaths, failedIndices, taskIdx, retry,
                 downloadedCount, exitCode, attempted, failedIn, reported, asked>>
  /\ UNCHANGED installUnchanged

\* downloadWorker: size_t idx = taskIdx.fetch_add(1); if (idx >= tasks.size()) break;
DownloadFetch(t) ==
  /\ dw[t].pc = "fetch"
  /\ taskIdx' = taskIdx + 1
  /\ IF taskIdx >= Len(tasks)
     THEN /\ dw' = [dw EXCEPT ![t] = [pc |-> "exit", idx |-> 0]]
          /\ UNCHANGED attempted
     ELSE /\ dw' = [dw EXCEPT ![t] = [pc |-> "work", idx |-> taskIdx]]
          /\ attempted' = [attempted EXCEPT ![retry] = @ \cup {tasks[taskIdx + 1]}]
  /\ UNCHANGED <<pc, autoYes, downloadTasks, modArchivePaths, failedIndices, tasks, retry,
                 downloadedCount, exitCode, failedIn, passRan, reported, asked>>
  /\ UNCHANGED installUnchanged

\* downloadWorker: the download itself, then the result recorded under downloadMutex:
\* modArchivePaths[dt.modIndex] = archivePath, or failed.push_back(idx)
DownloadFinish(t) ==
  /\ dw[t].pc = "work"
  /\ \E success \in BOOLEAN :
       IF success
       THEN /\ modArchivePaths' = modArchivePaths \cup {tasks[dw[t].idx + 1]}
            /\ downloadedCount' = downloadedCount + 1
            /\ UNCHANGED <<failedIndices, failedIn>>
       ELSE /\ failedIndices' = Append(failedIndices, dw[t].idx)
            /\ failedIn' = [failedIn EXCEPT ![retry] = @ \cup {tasks[dw[t].idx + 1]}]
            /\ UNCHANGED <<modArchivePaths, downloadedCount>>
  /\ dw' = [dw EXCEPT ![t] = [pc |-> "fetch", idx |-> 0]]
  /\ UNCHANGED <<pc, autoYes, downloadTasks, tasks, taskIdx, retry, exitCode, attempted,
                 passRan, reported, asked>>
  /\ UNCHANGED installUnchanged

\* number of threads of the running pass
PassThreads == IF retry = 0 THEN NumThreads ELSE Min(NumThreads, RetryThreadCap)

\* for (auto& t : downloadThreads) t.join();  then the retry loop's ++retry
JoinPass ==
  /\ pc = "pass"
  /\ AllJoined(dw, PassThreads)
  /\ pc' = "retryLoop"
  /\ retry' = retry + 1
  /\ UNCHANGED <<dw, autoYes, downloadTasks, modArchivePaths, failedIndices, tasks, taskIdx,
                 downloadedCount, exitCode, attempted, failedIn, passRan, reported, asked>>
  /\ UNCHANGED installUnchanged

\* retryTasks.push_back(downloadTasks[idx]) for each idx of failedIndices
RetryTasks == [k \in 1..Len(failedIndices) |-> downloadTasks[failedIndices[k] + 1]]

\* for (retry = 1; retry <= maxRetries && !failedIndices.empty(); ++retry) { ... }
RetryLoop ==
  /\ pc = "retryLoop"
  /\ IF retry <= maxRetries /\ failedIndices # <<>>
     THEN /\ tasks' = RetryTasks
          /\ failedIndices' = <<>>
          /\ taskIdx' = 0
          /\ dw' = Spawn(Min(NumThreads, RetryThreadCap))
          /\ passRan' = passRan \cup {retry}
          /\ pc' = "pass"
     ELSE /\ pc' = "report"
          /\ UNCHANGED <<tasks, failedIndices, taskIdx, dw, passRan>>
  /\ UNCHANGED <<autoYes, downloadTasks, modArchivePaths, retry, downloadedCount, exitCode,
                 attempted, failedIn, reported, asked>>
  /\ UNCHANGED installUnchanged

\* the mods named under "WARNING: n mod(s) failed to download"
ReportedMods == {downloadTasks[failedIndices[k] + 1] : k \in 1..Len(failedIndices)}

\* The closing brace of if (!downloadTasks.empty()) { ... }: failedIndices,
\* downloadIndex, downloadedCount and the thread vectors are locals of that block.
BlockExit ==
  /\ failedIndices' = <<>>
  /\ tasks' = <<>>
  /\ taskIdx' = 0
  /\ retry' = 0
  /\ downloadedCount' = 0

\* failedDownloads = failedIndices.size(); the warning, then --yes or the prompt
Report ==
  /\ pc = "report"
  /\ IF Len(failedIndices) > 0
     THEN /\ reported' = ReportedMods
          /\ IF autoYes
             THEN /\ asked' = "auto"
                  /\ pc' = "phase2"
                  /\ UNCHANGED exitCode
             ELSE /\ asked' = "prompt"
                  /\ \E yes \in BOOLEAN :
                       IF yes
                       THEN pc' = "phase2" /\ UNCHANGED exitCode
                       ELSE pc' = "exit" /\ exitCode' = 1
     ELSE /\ pc' = "phase2"
          /\ UNCHANGED <<reported, asked, exitCode>>
  /\ BlockExit
  /\ UNCHANGED <<autoYes, downloadTasks, modArchivePaths, dw, attempted, failedIn, passRan>>
  /\ UNCHANGED installUnchanged

\* what main() still holds of the download phase once Phase 2 runs
programUnchanged == <<autoYes, downloadTasks, modArchivePaths, failedIndices, tasks, taskIdx,
                      retry, dw, downloadedCount, descriptor, parseResult, otherThanDriver>>
\* the history of Phase 1b is kept until Phase 2 begins
historyUnchanged == <<attempted, failedIn, passRan, reported, asked>>

\* for (const auto& [idx, archivePath] : modArchivePaths) installTasks.push_back(task);
\* then the install pool, when there is a task
BuildInstallTasks ==
  /\ pc = "phase2"
  /\ installTasks' = SortedSeq(modArchivePaths)
  /\ installLog' = [k \in 1..Cardinality(modArchivePaths) |-> <<>>]
  /\ IF modArchivePaths # {}
     THEN pc' = "install" /\ iw' = Spawn(NumThreads)
     ELSE pc' = "generate" /\ UNCHANGED iw
  /\ attempted' = [k \in Passes |-> {}]
  /\ failedIn' = [k \in Passes |-> {}]
  /\ passRan' = {}
  /\ reported' = NotReported
  /\ asked' = "none"
  /\ UNCHANGED <<taskIndex, g_installed, g_failed, generated, exitCode>>
  /\ UNCHANGED programUnchanged

\* installWorker: size_t idx = taskIndex.fetch_add(1); if (idx >= installTasks.size()) break;
InstallFetch(t) ==
  /\ iw[t].pc = "fetch"
  /\ taskIndex' = taskIndex + 1
  /\ iw' = [iw EXCEPT ![t] = IF taskIndex >= Len(installTasks)
                              THEN [pc |-> "exit", idx |-> 0]
                              ELSE [pc |-> "work", idx |-> taskIndex]]
  /\ UNCHANGED <<pc, installTasks, g_installed, g_failed, installLog, generated, exitCode>>
  /\ UNCHANGED programUnchanged
  /\ UNCHANGED historyUnchanged

\* The ways installMod can run.  kind: what the archive holds and what goes
\* wrong; ok: the return value of FomodInstaller::process on the FOMOD path;
\* destExisted: task.destModPath is a directory when installMod starts.
InstallKinds == {"extractFail", "throw", "fomod", "hash", "standard"}

\* Does flattenDataFolder find its root?  The hash and standard paths call
\* fs::create_directories(task.destModPath); FomodInstaller::process creates
\* dstRoot only after the XML has been parsed.
DestPresent(kind, ok, destExisted) ==
  \/ destExisted
  \/ kind \in {"hash", "standard"}
  \/ kind = "fomod" /\ ok

\* installMod: "failed" where g_failed++ runs, "installed" where g_installed++ runs.
\* The return value of process is ignored; flattenDataFolder throws from
\* fs::directory_iterator when the destination does not exist.
installModNoCount(kind, ok, destExisted) ==
  IF kind = "extractFail" THEN "none"
  ELSE IF kind = "throw" THEN "failed"
  ELSE IF DestPresent(kind, ok, destExisted) THEN "installed" ELSE "failed"
installMod(kind, ok, destExisted) ==
  IF kind \in {"extractFail", "throw"} THEN "failed"
  ELSE IF DestPresent(kind, ok, destExisted) THEN "installed" ELSE "failed"

\* installWorker: installMod(installTasks[idx]).  The log keeps, per run, whether
\* FomodInstaller::process returned false and which counter was incremented.
InstallRun(t) ==
  /\ iw[t].pc = "work"
  /\ \E kind \in InstallKinds, ok \in BOOLEAN, destExisted \in BOOLEAN :
       /\ (kind # "fomod" => ok)
       /\ LET counted == installMod(kind, ok, destExisted)
          IN /\ g_installed' = g_installed + (IF counted = "installed" THEN 1 ELSE 0)
             /\ g_failed' = g_failed + (IF counted = "failed" THEN 1 ELSE 0)
             /\ installLog' = [installLog EXCEPT ![iw[t].idx + 1] =
                                 Append(@, [processFailed |-> (kind = "fomod" /\ ~ok),
                                            counted |-> counted])]
  /\ iw' = [iw EXCEPT ![t] = [pc |-> "fetch", idx |-> 0]]
  /\ UNCHANGED <<pc, installTasks, taskIndex, generated, exitCode>>
  /\ UNCHANGED programUnchanged
  /\ UNCHANGED historyUnchanged

\* for (auto& t : installThreads) t.join();
JoinInstall ==
  /\ pc = "install"
  /\ AllJoined(iw, NumThreads)
  /\ pc' = "generate"
  /\ UNCHANGED <<iw, installTasks, taskIndex, g_installed, g_failed, installLog, generated,
                 exitCode>>
  /\ UNCHANGED programUnchanged
  /\ UNCHANGED historyUnchanged

\* writePluginList(profilesDir + "/plugins.txt", ...)
GeneratePlugins ==
  /\ pc = "generate"
  /\ generated' = <<TRUE, FALSE>>
  /\ pc' = "modlist"
  /\ UNCHANGED <<installTasks, taskIndex, iw, g_installed, g_failed, installLog, exitCode>>
  /\ UNCHANGED programUnchanged
  /\ UNCHANGED historyUnchanged

\* writeModList(profilesDir + "/modlist.txt", ...)
GenerateModList ==
  /\ pc = "modlist"
  /\ generated' = <<TRUE, TRUE>>
  /\ pc' = "summary"
  /\ UNCHANGED <<installTasks, taskIndex, iw, g_installed, g_failed, installLog, exitCode>>
  /\ UNCHANGED programUnchanged
  /\ UNCHANGED historyUnchanged

\* the variant whose exit code also counts the downloads that failed
SummaryCountingDownloads ==
  /\ pc = "summary"
  /\ exitCode' = IF g_failed > 0 \/ Range(downloadTasks) \ modArchivePaths # {} THEN 1 ELSE 0
  /\ pc' = "exit"
  /\ UNCHANGED <<installTasks, taskIndex, iw, g_installed, g_failed, installLog, generated>>
  /\ UNCHANGED programUnchanged
  /\ UNCHANGED historyUnchanged

\* return (failed > 0) ? 1 : 0;
Summary ==
  /\ pc = "summary"
  /\ exitCode' = IF g_failed > 0 THEN 1 ELSE 0
  /\ pc' = "exit"
  /\ UNCHANGED <<installTasks, taskIndex, iw, g_installed, g_failed, installLog, generated>>
  /\ UNCHANGED programUnchanged
  /\ UNCHANGED historyUnchanged

DriverNext ==
  \/ ParseCollection
  \/ ValidateKey
  \/ ScanArchives
  \/ StartDownloads
  \/ \E t \in Threads : DownloadFetch(t)
  \/ \E t \in Threads : DownloadFinish(t)
  \/ JoinPass
  \/ RetryLoop
  \/ Report
  \/ BuildInstallTasks
  \/ \E t \in Threads : InstallFetch(t)
  \/ \E t \in Threads : InstallRun(t)
  \/ JoinInstall
  \/ GeneratePlugins
  \/ GenerateModList
  \/ Summary

SpecDriver == DriverInit /\ [][DriverNext]_vars

(***************************************************************************)
(* SpecRate: one NexusAPI client called by the download workers.           *)
(* main() constructs the client (lastRequest = now) and sends the          *)
(* validation request; the workers of the download pool then call          *)
(* getDownloadLinks on it, each call starting with rateLimitWait.          *)
(* NexusAPI has no mutex: the steps of rateLimitWait of different          *)
(* workers interleave, and lastRequest is read and written unprotected.    *)
(***************************************************************************)
RateInit ==
  /\ now = 0
  /\ lastRequest = 0
  /\ requestTimes = <<0>>
  /\ rw = [t \in Threads |-> [pc |-> "call", wake |-> 0]]
  /\ DriverIdle
  /\ ScanIdle
  /\ FomodIdle
  /\ SortIdle
  /\ TreeIdle
  /\ GamePathIdle
  /\ HttpIdle
  /\ FomodParserIdle

\* time passes
Tick ==
  /\ now < MaxClockMs
  /\ now' = now + TickMs
  /\ UNCHANGED <<lastRequest, rw, requestTimes, otherThanRate>>

\* rateLimitWait: now = steady_clock::now(); elapsed = now - lastRequest;
\* if (elapsed.count() < 100) sleep_for(100 - elapsed)
RateLimitRead(t) ==
  /\ rw[t].pc = "call"
  /\ Len(requestTimes) < MaxRequests
  /\ LET elapsed == now - lastRequest
     IN rw' = [rw EXCEPT ![t] = IF elapsed < RateLimitMs
                                 THEN [pc |-> "sleep", wake |-> now + (RateLimitMs - elapsed)]
                                 ELSE [pc |-> "stamp", wake |-> 0]]
  /\ UNCHANGED <<now, lastRequest, requestTimes, otherThanRate>>

\* sleep_for returns once the duration has passed
RateLimitWake(t) ==
  /\ rw[t].pc = "sleep"
  /\ now >= rw[t].wake
  /\ rw' = [rw EXCEPT ![t] = [pc |-> "stamp", wake |-> 0]]
  /\ UNCHANGED <<now, lastRequest, requestTimes, otherThanRate>>

\* lastRequest = steady_clock::now(); then httpGet(url, ...) sends the request
RateLimitStamp(t) ==
  /\ rw[t].pc = "stamp"
  /\ lastRequest' = now
  /\ requestTimes' = Append(requestTimes, now)
  /\ rw' = [rw EXCEPT ![t] = [pc |-> "http", wake |-> 0]]
  /\ UNCHANGED <<now, otherThanRate>>

\* httpGet returns; the worker goes on to its next task and calls again
HttpReturn(t) ==
  /\ rw[t].pc = "http"
  /\ rw' = [rw EXCEPT ![t] = [pc |-> "call", wake |-> 0]]
  /\ UNCHANGED <<now, lastRequest, requestTimes, otherThanRate>>

RateNext ==
  \/ Tick
  \/ \E t \in Threads : RateLimitRead(t)
  \/ \E t \in Threads : RateLimitWake(t)
  \/ \E t \in Threads : RateLimitStamp(t)
  \/ \E t \in Threads : HttpReturn(t)

SpecRate == RateInit /\ [][RateNext]_vars

(***************************************************************************)
(* SpecScan: Phase 1 of main(), the scan of the downloads folder, then     *)
(* the outcome of the downloads and the build of the install tasks.        *)
(* A string is the sequence of its characters; ".7z" and the "Creation     *)
(* Club - " prefix are written as one character each.                      *)
(***************************************************************************)
\* std::tolower on one character
ToLower(c) ==
  CASE c = "A" -> "a"
    [] c = "B" -> "b"
    [] c = "O" -> "o"
    [] c = "S" -> "s"
    [] c = ".ESP" -> ".esp"
    [] c = "Data" -> "data"
    [] c = "Meshes" -> "meshes"
    [] c = "Creation Club - " -> "creation club - "
    [] OTHER -> c

\* std::transform(..., tolower)
LowerStr(str) == [i \in 1..Len(str) |-> ToLower(str[i])]

\* str.find(pat): the first position (from 0) where pat occurs, or npos
npos == -1
Find(str, pat) ==
  LET hits == {i \in 0..(Len(str) - Len(pat)) : SubSeq(str, i + 1, i + Len(pat)) = pat}
  IN IF hits = {} THEN npos ELSE CHOOSE i \in hits : \A j \in hits : i <= j

\* str.rfind(c): the last position (from 0) of the character, or npos
RFind(str, c) ==
  LET hits == {i \in 0..(Len(str) - 1) : str[i + 1] = c}
  IN IF hits = {} THEN npos ELSE CHOOSE i \in hits : \A j \in hits : i >= j

\* std::to_string of an int
Digits == <<"0", "1", "2", "3", "4", "5", "6", "7", "8", "9">>
RECURSIVE to_string(_)
to_string(n) ==
  IF n < 0 THEN <<"-">> \o to_string(0 - n)
  ELSE IF n < 10 THEN <<Digits[n + 1]>>
  ELSE to_string(n \div 10) \o <<Digits[(n % 10) + 1]>>

\* the characters main() and sanitizeFolderName replace by '_'
Problematic == {"/", "\\", ":", "*", "?", "\"", "<", ">", "|"}

ReplaceProblematic(str) ==
  [i \in 1..Len(str) |-> IF str[i] \in Problematic THEN "_" ELSE str[i]]

\* while (!result.empty() && (result.back() == ' ' || result.back() == '.')) pop_back
RECURSIVE TrimTrailing(_)
TrimTrailing(str) ==
  IF str # <<>> /\ str[Len(str)] \in {" ", "."}
  THEN TrimTrailing(SubSeq(str, 1, Len(str) - 1))
  ELSE str

sanitizeFolderName(name) == TrimTrailing(ReplaceProblematic(name))

\* bool isDirectDownload = (mod.sourceType == "direct" && !mod.directUrl.empty())
IsDirectDownload(mod) == mod.sourceType = "direct" /\ mod.directUrl # <<>>

\* main: "Create folder name"
FolderName(mod) ==
  IF IsDirectDownload(mod)
  THEN sanitizeFolderName(mod.name)
  ELSE sanitizeFolderName(IF mod.logicalFilename = <<>> THEN mod.name
                          ELSE mod.logicalFilename)
       \o <<"-">> \o to_string(mod.modId) \o <<"-">> \o to_string(mod.fileId)

\* direct download: the file name is what follows the last '/' of the URL
DirectFileName(mod) ==
  LET lastSlash == RFind(mod.directUrl, "/")
  IN IF lastSlash # npos
     THEN SubSeq(mod.directUrl, lastSlash + 2, Len(mod.directUrl))
     ELSE mod.name \o <<".7z">>

\* downloadWorker: the name a downloaded Nexus archive is stored under
DownloadFileName(mod) ==
  ReplaceProblematic(mod.name \o <<"-">> \o to_string(mod.modId) \o <<"-">>
                     \o to_string(mod.fileId) \o <<".7z">>)

\* the size of the named file in the listing, or -1 when there is none
FileSizeOf(listing, fname) ==
  IF \E k \in 1..Len(listing) : listing[k].name = fname
  THEN listing[CHOOSE k \in 1..Len(listing) : listing[k].name = fname].size
  ELSE -1

\* "-" + std::to_string(mod.modId) + "-"
ModIdPattern(mod) == <<"-">> \o to_string(mod.modId) \o <<"-">>

\* The loop over fs::directory_iterator(downloadsDir) for a Nexus mod, from
\* entry i on, and the fallback after it.  The result is the archive path,
\* <<>> when no archive is found.
RECURSIVE ScanEntries(_, _, _, _)
ScanEntries(listing, i, mod, fallbackMatch) ==
  IF i > Len(listing) THEN fallbackMatch
  ELSE
    LET fname == listing[i].name
        fnameLower == LowerStr(fname)
        logicalLower == LowerStr(mod.logicalFilename)
        expectedStart == LowerStr(logicalLower \o ModIdPattern(mod))
        ccPrefix == <<"creation club - ">>
        ccPos == Find(logicalLower, ccPrefix)
        simplifiedStart ==
          SubSeq(logicalLower, 1, ccPos)
            \o SubSeq(logicalLower, ccPos + Len(ccPrefix) + 1, Len(logicalLower))
            \o ModIdPattern(mod)
    IN IF logicalLower # <<>> /\ Find(fnameLower, expectedStart) = 0 THEN fname
       ELSE IF logicalLower # <<>> /\ ccPos # npos /\ Find(fnameLower, simplifiedStart) = 0
       THEN fname
       ELSE IF Find(fname, ModIdPattern(mod)) # npos
       THEN IF mod.fileSize > 0 /\ listing[i].size = mod.fileSize THEN fname
            ELSE ScanEntries(listing, i + 1, mod,
                             IF fallbackMatch = <<>> THEN fname ELSE fallbackMatch)
       ELSE ScanEntries(listing, i + 1, mod, fallbackMatch)

\* the archive the scan finds for a Nexus mod
FindNexusArchive(listing, mod) == ScanEntries(listing, 1, mod, <<>>)

\* the archive the scan finds for a direct download
FindDirectArchive(listing, mod) ==
  IF FileSizeOf(listing, DirectFileName(mod)) > 0 THEN DirectFileName(mod) ELSE <<>>

\* what the model draws the collection from
ModCatalogue ==
  { [name |-> <<"a">>, logicalFilename |-> <<"a">>, modId |-> 1, fileId |-> 1,
     fileSize |-> 5, sourceType |-> "nexus", directUrl |-> <<>>],
    [name |-> <<"a">>, logicalFilename |-> <<"a">>, modId |-> 1, fileId |-> 2,
     fileSize |-> 3, sourceType |-> "nexus", directUrl |-> <<>>],
    [name |-> <<"b">>, logicalFilename |-> <<>>, modId |-> 2, fileId |-> 1,
     fileSize |-> 0, sourceType |-> "nexus", directUrl |-> <<>>],
    [name |-> <<"a", ":">>, logicalFilename |-> <<>>, modId |-> -1, fileId |-> -1,
     fileSize |-> 0, sourceType |-> "direct", directUrl |-> <<"u", "/", "x", ".7z">>],
    [name |-> <<"a", "?">>, logicalFilename |-> <<>>, modId |-> -1, fileId |-> -1,
     fileSize |-> 0, sourceType |-> "direct", directUrl |-> <<"u", "/", "y", ".7z">>],
    [name |-> <<"c">>, logicalFilename |-> <<>>, modId |-> -1, fileId |-> -1,
     fileSize |-> 0, sourceType |-> "nexus", directUrl |-> <<>>] }

\* what the model draws the downloads folder from
FileNames ==
  { <<"a", "-", "1", "-", "1", ".7z">>, <<"A", "-", "1", "-", "2", ".7z">>,
    <<"z", "-", "1", "-", "9", ".7z">>, <<"b", "-", "2", "-", "1", ".7z">>,
    <<"x", ".7z">> }
FileCatalogue == [name : FileNames, size : {0, 3, 5}]

\* listings of at most n files with different names
RECURSIVE Listings(_)
Listings(n) ==
  IF n = 0 THEN {<<>>}
  ELSE LET shorter == Listings(n - 1)
       IN shorter \cup
          {Append(l, f) : l \in {x \in shorter : Len(x) = n - 1},
                          f \in FileCatalogue}

DistinctNames(listing) ==
  \A i \in 1..Len(listing) : \A j \in 1..Len(listing) :
     i # j => listing[i].name # listing[j].name

ScanInit ==
  /\ scanPc = "scan"
  /\ scanMods \in [1..NumScanMods -> ModCatalogue]
  /\ downloadsDir \in {l \in Listings(MaxDirFiles) : DistinctNames(l)}
  /\ modsDirNonEmpty \in {{}, {FolderName(scanMods[1])}}
  /\ scanPos = 0
  /\ scanSkipped = 0
  /\ modFolderNames = [i \in {} |-> <<>>]
  /\ scanArchivePaths = [i \in {} |-> <<>>]
  /\ scanDownloadTasks = <<>>
  /\ scanInstallTasks = <<>>
  /\ DriverIdle
  /\ RateIdle
  /\ FomodIdle
  /\ SortIdle
  /\ TreeIdle
  /\ GamePathIdle
  /\ HttpIdle
  /\ FomodParserIdle

\* a map with one more entry
Put(map, key, value) ==
  [k \in DOMAIN map \cup {key} |-> IF k = key THEN value ELSE map[k]]

\* One turn of the scan loop: for (size_t i = 0; i < collection.mods.size(); ++i)
ScanMod ==
  /\ scanPc = "scan"
  /\ scanPos < Len(scanMods)
  /\ LET mod == scanMods[scanPos + 1]
         folderName == FolderName(mod)
         archivePath == IF IsDirectDownload(mod)
                        THEN FindDirectArchive(downloadsDir, mod)
                        ELSE FindNexusArchive(downloadsDir, mod)
     IN IF ~IsDirectDownload(mod) /\ (mod.modId <= 0 \/ mod.fileId <= 0)
        THEN /\ scanSkipped' = scanSkipped + 1
             /\ UNCHANGED <<modFolderNames, scanArchivePaths, scanDownloadTasks>>
        ELSE /\ modFolderNames' = Put(modFolderNames, scanPos, folderName)
             /\ IF folderName \in modsDirNonEmpty
                THEN /\ scanSkipped' = scanSkipped + 1
                     /\ UNCHANGED <<scanArchivePaths, scanDownloadTasks>>
                ELSE /\ UNCHANGED scanSkipped
                     /\ IF archivePath # <<>>
                        THEN /\ scanArchivePaths' = Put(scanArchivePaths, scanPos, archivePath)
                             /\ UNCHANGED scanDownloadTasks
                        ELSE /\ scanDownloadTasks' = Append(scanDownloadTasks, scanPos)
                             /\ UNCHANGED scanArchivePaths
  /\ scanPos' = scanPos + 1
  /\ UNCHANGED <<scanPc, scanMods, downloadsDir, modsDirNonEmpty, scanInstallTasks,
                 otherThanScan>>

\* the scan loop ends; Phase 1b follows
ScanDone ==
  /\ scanPc = "scan"
  /\ scanPos = Len(scanMods)
  /\ scanPc' = "download"
  /\ scanPos' = 0
  /\ UNCHANGED <<scanMods, downloadsDir, modsDirNonEmpty, scanSkipped, modFolderNames,
                 scanArchivePaths, scanDownloadTasks, scanInstallTasks, otherThanScan>>

\* the listing with the named file written anew
WriteFile(listing, fname, size) ==
  IF \E k \in 1..Len(listing) : listing[k].name = fname
  THEN [k \in 1..Len(listing) |-> IF listing[k].name = fname
                                   THEN [name |-> fname, size |-> size]
                                   ELSE listing[k]]
  ELSE Append(listing, [name |-> fname, size |-> size])

\* Phase 1b for one download task, after its last attempt: the archive is in
\* the downloads folder and in modArchivePaths, or the task stays failed.
ScanDownload ==
  /\ scanPc = "download"
  /\ scanPos < Len(scanDownloadTasks)
  /\ LET modIndex == scanDownloadTasks[scanPos + 1]
         mod == scanMods[modIndex + 1]
         archivePath == IF IsDirectDownload(mod) THEN DirectFileName(mod)
                        ELSE DownloadFileName(mod)
     IN \E success \in BOOLEAN :
          IF success
          THEN /\ scanArchivePaths' = Put(scanArchivePaths, modIndex, archivePath)
               /\ downloadsDir' = WriteFile(downloadsDir, archivePath,
                                            IF mod.fileSize > 0 THEN mod.fileSize ELSE 3)
          ELSE UNCHANGED <<scanArchivePaths, downloadsDir>>
  /\ scanPos' = scanPos + 1
  /\ UNCHANGED <<scanPc, scanMods, modsDirNonEmpty, scanSkipped, modFolderNames,
                 scanDownloadTasks, scanInstallTasks, otherThanScan>>

\* ascending sequence of the keys of a map
Keys(map) == SortedSeq(DOMAIN map)

\* Phase 2: for (const auto& [idx, archivePath] : modArchivePaths) { InstallTask task; ... }
\* extractPath is what installMod extracts into: tempDir/folderName_index
BuildScanInstallTasks ==
  /\ scanPc = "download"
  /\ scanPos = Len(scanDownloadTasks)
  /\ scanInstallTasks' =
       [k \in 1..Len(Keys(scanArchivePaths)) |->
          LET idx == Keys(scanArchivePaths)[k]
          IN [index |-> idx,
              archivePath |-> scanArchivePaths[idx],
              destModPath |-> <<"mods", "/">> \o modFolderNames[idx],
              tempDir |-> <<"temp_extract", "/">> \o modFolderNames[idx],
              extractPath |-> <<"temp_extract", "/">> \o modFolderNames[idx] \o <<"/">>
                              \o modFolderNames[idx] \o <<"_">> \o to_string(idx)]]
  /\ scanPc' = "built"
  /\ UNCHANGED <<scanMods, downloadsDir, modsDirNonEmpty, scanPos, scanSkipped,
                 modFolderNames, scanArchivePaths, scanDownloadTasks, otherThanScan>>

ScanNext ==
  \/ ScanMod
  \/ ScanDone
  \/ ScanDownload
  \/ BuildScanInstallTasks

SpecScan == ScanInit /\ [][ScanNext]_vars

(***************************************************************************)
(* SpecFomod: FomodInstaller::process on a parsed ModuleConfig.xml.        *)
(* Every <file> of the document names a source of its own, present in the  *)
(* archive, so a copied source tells which element installed it.           *)
(***************************************************************************)
\* static bool iequals(const std::string& a, const std::string& b)
iequals(a, b) == LowerStr(a) = LowerStr(b)

\* the variant that flattens the selections by group name
getSelectedOptionsByGroup(choices, stepName, groupName) ==
  UNION { UNION { {step.groups[g].choices[c].name : c \in DOMAIN step.groups[g].choices}
                  : g \in {h \in DOMAIN step.groups :
                             iequals(step.groups[h].name, groupName)} }
          : step \in {choices[s] : s \in DOMAIN choices} }

\* std::set<std::string> FomodChoices::getSelectedOptions(stepName, groupName)
getSelectedOptions(choices, stepName, groupName) ==
  UNION { UNION { {step.groups[g].choices[c].name : c \in DOMAIN step.groups[g].choices}
                  : g \in {h \in DOMAIN step.groups :
                             iequals(step.groups[h].name, groupName)} }
          : step \in {choices[s] : s \in {r \in DOMAIN choices :
                                            iequals(choices[r].name, stepName)}} }

\* stepName: attribute "name", or "Name" when that is empty
StepNameOf(step) == IF step.name = <<>> THEN step.Name ELSE step.name

\* bool isSelected, from the loop over selectedOptions
PluginSelected(selectedOptions, pluginName) ==
  \E selected \in selectedOptions : iequals(selected, pluginName)

\* the source named by the <file> of a plugin, of requiredInstallFiles, of a pattern
PluginFile(si, gi, pi) == [kind |-> "plugin", step |-> si, group |-> gi, item |-> pi]
RequiredFile == [kind |-> "required", step |-> 0, group |-> 0, item |-> 0]
PatternFile(k) == [kind |-> "pattern", step |-> 0, group |-> 0, item |-> k]

\* collectPluginFlags: flags[flagName] = flagValue for each <flag> in order
RECURSIVE collectPluginFlags(_, _)
collectPluginFlags(conditionFlags, flags) ==
  IF conditionFlags = <<>> THEN flags
  ELSE collectPluginFlags(Tail(conditionFlags),
                          IF Head(conditionFlags).name # <<>>
                          THEN Put(flags, Head(conditionFlags).name,
                                   Head(conditionFlags).value)
                          ELSE flags)

\* checkFlagDependency
checkFlagDependency(flagDep, flags) ==
  IF flagDep.flag \notin DOMAIN flags THEN FALSE
  ELSE iequals(flags[flagDep.flag], flagDep.value)

\* evaluateDependencies: And returns false at the first unsatisfied child, Or
\* returns true at the first satisfied one, and the end returns isAnd || !hasAny
RECURSIVE evaluateDependencies(_, _)
evaluateDependencies(dependencies, flags) ==
  LET isAnd == dependencies.operator = <<>> \/ iequals(dependencies.operator, <<"A", "n", "d">>)
      hasAny == dependencies.flagDependency # <<>> \/ dependencies.dependencies # <<>>
      satisfied == {checkFlagDependency(dependencies.flagDependency[k], flags)
                      : k \in DOMAIN dependencies.flagDependency}
                   \cup {evaluateDependencies(dependencies.dependencies[k], flags)
                           : k \in DOMAIN dependencies.dependencies}
  IN IF isAnd /\ FALSE \in satisfied THEN FALSE
     ELSE IF ~isAnd /\ TRUE \in satisfied THEN TRUE
     ELSE isAnd \/ ~hasAny

\* names the model draws the documents and the choices from
XmlStepNames == {[name |-> <<"s">>, Name |-> <<>>], [name |-> <<"t">>, Name |-> <<>>],
                 [name |-> <<>>, Name |-> <<"S">>]}
GroupNames == {<<"g">>, <<"h">>}
OptionNames == {<<"a">>, <<"A">>, <<"b">>}
StepNames == {<<"s">>, <<"S">>, <<"t">>}

\* <plugin name=...>: the plugin named b sets the flag f
XmlPlugin(optionName) ==
  [name |-> optionName,
   conditionFlags |-> IF optionName = <<"b">>
                      THEN <<[name |-> <<"f">>, value |-> <<"O", "n">>]>>
                      ELSE <<>>]

\* the plugin names of a group: NumPlugins different names
PluginNameLists ==
  {names \in [1..NumPlugins -> OptionNames] :
     \A i \in 1..NumPlugins : \A j \in 1..NumPlugins : i # j => names[i] # names[j]}

\* <installStep> with one <group> of NumPlugins plugins
XmlSteps ==
  {[name |-> sn.name, Name |-> sn.Name,
    groups |-> <<[name |-> gn, plugins |-> [k \in 1..NumPlugins |-> XmlPlugin(names[k])]]>>]
     : sn \in XmlStepNames, gn \in GroupNames, names \in PluginNameLists}

\* a step of the choices: one group g with one choice
ChoiceSteps ==
  {[name |-> sn,
    groups |-> <<[name |-> <<"g">>, choices |-> <<[name |-> on, idx |-> 0]>>]>>]
     : sn \in {<<"s">>, <<"t">>}, on \in OptionNames}

\* <dependencies> elements and the <pattern> lists of conditionalFileInstalls
NoDependencies == [present |-> FALSE, operator |-> <<>>, flagDependency |-> <<>>,
                   dependencies |-> <<>>]
FlagOn == [present |-> TRUE, operator |-> <<"a", "n", "d">>,
           flagDependency |-> <<[flag |-> <<"f">>, value |-> <<"o", "n">>]>>,
           dependencies |-> <<>>]
EmptyOr == [present |-> TRUE, operator |-> <<"O", "r">>, flagDependency |-> <<>>,
            dependencies |-> <<>>]
EmptyAnd == [present |-> TRUE, operator |-> <<>>, flagDependency |-> <<>>,
             dependencies |-> <<>>]
PatternLists == {<<NoDependencies, EmptyAnd>>, <<EmptyOr, FlagOn>>}

FomodInit ==
  /\ fomodPc = "load"
  /\ fomodXml \in [1..NumFomodSteps -> XmlSteps]
  /\ fomodChoices \in [1..NumFomodSteps -> ChoiceSteps]
  /\ fomodStep = 0
  /\ fomodFlags = <<>>
  /\ fomodPatterns = <<>>
  /\ fomodInstalled = {}
  /\ fomodDest = FALSE
  /\ fomodResult = "none"
  /\ fomodWritten = <<>>
  /\ fomodContent = <<>>
  /\ DriverIdle
  /\ RateIdle
  /\ ScanIdle
  /\ SortIdle
  /\ TreeIdle
  /\ GamePathIdle
  /\ HttpIdle
  /\ FomodParserIdle

\* findModuleConfig, the read of the file and doc.load_buffer: any failure
\* returns false before dstRoot is created
FomodLoad ==
  /\ fomodPc = "load"
  /\ \E loaded \in BOOLEAN :
       IF loaded
       THEN /\ fomodPc' = "required"
            /\ fomodDest' = TRUE
            /\ UNCHANGED fomodResult
       ELSE /\ fomodPc' = "done"
            /\ fomodResult' = "false"
            /\ UNCHANGED fomodDest
  /\ UNCHANGED <<fomodXml, fomodChoices, fomodStep, fomodFlags, fomodPatterns,
                 fomodInstalled, fomodWritten, fomodContent, otherThanFomod>>

\* the destination attribute of the <file> nodes: the files of the first
\* plugin of each group, of the first pattern and of requiredInstallFiles name
\* one destination, the others a second one
DestinationOf(file) == IF file.item <= 1 THEN <<"d">> ELSE <<"e">>

\* the variant of the copies that leaves an existing destination as it is
RECURSIVE installFilesKeepExisting(_, _)
installFilesKeepExisting(content, files) ==
  IF files = <<>> THEN content
  ELSE installFilesKeepExisting(
         IF DestinationOf(Head(files)) \in DOMAIN content THEN content
         ELSE Put(content, DestinationOf(Head(files)), Head(files)),
         Tail(files))

\* installFile for each file in turn: fs::copy_file(..., overwrite_existing)
RECURSIVE installFiles(_, _)
installFiles(content, files) ==
  IF files = <<>> THEN content
  ELSE installFiles(Put(content, DestinationOf(Head(files)), Head(files)), Tail(files))

\* "Process requiredInstallFiles first"
FomodRequired ==
  /\ fomodPc = "required"
  /\ fomodInstalled' = fomodInstalled \cup {RequiredFile}
  /\ fomodWritten' = fomodWritten \o <<RequiredFile>>
  /\ fomodContent' = installFiles(fomodContent, <<RequiredFile>>)
  /\ fomodPc' = "steps"
  /\ fomodStep' = 1
  /\ UNCHANGED <<fomodXml, fomodChoices, fomodFlags, fomodPatterns, fomodDest,
                 fomodResult, otherThanFomod>>

\* the selected plugins of a step, as <<group, plugin>> positions in document order
SelectedPlugins(choices, step) ==
  LET groupOf(n) == ((n - 1) \div NumPlugins) + 1
      pluginOf(n) == ((n - 1) % NumPlugins) + 1
  IN SelectSeq([n \in 1..(Len(step.groups) * NumPlugins) |-> <<groupOf(n), pluginOf(n)>>],
               LAMBDA gp : PluginSelected(
                  getSelectedOptions(choices, StepNameOf(step), step.groups[gp[1]].name),
                  step.groups[gp[1]].plugins[gp[2]].name))

\* the flags after the selected plugins of a step, taken in order
RECURSIVE FlagsAfter(_, _, _)
FlagsAfter(step, selected, flags) ==
  IF selected = <<>> THEN flags
  ELSE FlagsAfter(step, Tail(selected),
                  collectPluginFlags(
                    step.groups[Head(selected)[1]].plugins[Head(selected)[2]].conditionFlags,
                    flags))

\* one turn of "for (pugi::xml_node step : installSteps.children("installStep"))"
FomodInstallStep ==
  /\ fomodPc = "steps"
  /\ fomodStep <= Len(fomodXml)
  /\ LET step == fomodXml[fomodStep]
         selected == SelectedPlugins(fomodChoices, step)
         files == [k \in DOMAIN selected |->
                     PluginFile(fomodStep, selected[k][1], selected[k][2])]
     IN /\ fomodFlags' = FlagsAfter(step, selected, fomodFlags)
        /\ fomodInstalled' = fomodInstalled \cup Range(files)
        /\ fomodWritten' = fomodWritten \o files
        /\ fomodContent' = installFiles(fomodContent, files)
  /\ fomodStep' = fomodStep + 1
  /\ UNCHANGED <<fomodPc, fomodXml, fomodChoices, fomodPatterns, fomodDest, fomodResult,
                 otherThanFomod>>

\* "Process conditionalFileInstalls (for flag-based installs)", and return true
FomodConditional ==
  /\ fomodPc = "steps"
  /\ fomodStep > Len(fomodXml)
  /\ \E patterns \in PatternLists :
       LET matched == SelectSeq([k \in DOMAIN patterns |-> k],
                                LAMBDA j : IF patterns[j].present
                                           THEN evaluateDependencies(patterns[j], fomodFlags)
                                           ELSE TRUE)
           files == [k \in DOMAIN matched |-> PatternFile(matched[k])]
       IN /\ fomodPatterns' = patterns
          /\ fomodInstalled' = fomodInstalled \cup Range(files)
          /\ fomodWritten' = fomodWritten \o files
          /\ fomodContent' = installFiles(fomodContent, files)
  /\ fomodPc' = "done"
  /\ fomodResult' = "true"
  /\ UNCHANGED <<fomodXml, fomodChoices, fomodStep, fomodFlags, fomodDest, otherThanFomod>>

FomodNext ==
  \/ FomodLoad
  \/ FomodRequired
  \/ FomodInstallStep
  \/ FomodConditional

SpecFomod == FomodInit /\ [][FomodNext]_vars

(***************************************************************************)
(* SpecSort: ModListGenerator::generateModOrderCombined.  Mods are         *)
(* numbered from 1 (the code counts from 0); ranks and positions count     *)
(* from 0 as in the code.                                                  *)
(***************************************************************************)
INT_MAX == 2147483647

Max(S) == CHOOSE x \in S : \A y \in S : x >= y

\* the code of a character, for operator< of std::string
CharCode(c) ==
  CASE c = "1" -> 49
    [] c = "2" -> 50
    [] c = "A" -> 65
    [] c = "B" -> 66
    [] c = "C" -> 67
    [] c = "D" -> 68
    [] c = "a" -> 97
    [] c = "b" -> 98
    [] c = "c" -> 99
    [] c = "d" -> 100
    [] OTHER -> 0

\* std::string operator<
RECURSIVE StrLess(_, _)
StrLess(a, b) ==
  IF b = <<>> THEN FALSE
  ELSE IF a = <<>> THEN TRUE
  ELSE IF CharCode(Head(a)) # CharCode(Head(b)) THEN CharCode(Head(a)) < CharCode(Head(b))
  ELSE StrLess(Tail(a), Tail(b))

\* std::string key = logicalFilename.empty() ? name : logicalFilename
ModKey(mod) == IF mod.logicalFilename = <<>> THEN mod.name ELSE mod.logicalFilename

\* std::string folder = folderName.empty() ? name : folderName
ModFolder(mod) == IF mod.folderName = <<>> THEN mod.name ELSE mod.folderName

modFolders(mods) == [i \in DOMAIN mods |-> ModFolder(mods[i])]

\* logicalNameToIdx[key] = i for i ascending: the last mod of a key stays
logicalNameToIdx(mods) ==
  [key \in {ModKey(mods[i]) : i \in DOMAIN mods} |->
     Max({i \in DOMAIN mods : ModKey(mods[i]) = key})]

\* md5ToLogicalName[md5] = key for the mods with an md5, the last one stays
md5ToLogicalName(mods) ==
  [md5 \in {mods[i].md5 : i \in {j \in DOMAIN mods : mods[j].md5 # <<>>}} |->
     ModKey(mods[Max({i \in DOMAIN mods : mods[i].md5 = md5})])]

\* srcKey / refKey: the logical name, or the name found for the md5 when the
\* logical name is empty
RuleKey(logicalName, md5, mods) ==
  IF logicalName = <<>> /\ md5 # <<>> /\ md5 \in DOMAIN md5ToLogicalName(mods)
  THEN md5ToLogicalName(mods)[md5]
  ELSE logicalName

srcKey(rule, mods) == RuleKey(rule.sourceLogicalName, rule.sourceMd5, mods)
refKey(rule, mods) == RuleKey(rule.referenceLogicalName, rule.referenceMd5, mods)

\* the rule is not skipped and adds an edge
RuleApplies(rule, mods) ==
  /\ srcKey(rule, mods) \in DOMAIN logicalNameToIdx(mods)
  /\ refKey(rule, mods) \in DOMAIN logicalNameToIdx(mods)
  /\ rule.type \in {"before", "after"}

srcIdx(rule, mods) == logicalNameToIdx(mods)[srcKey(rule, mods)]
refIdx(rule, mods) == logicalNameToIdx(mods)[refKey(rule, mods)]

\* the variant that adds the edge of a "before" rule for every rule
RuleEdgeAlwaysBefore(rule, mods) == <<srcIdx(rule, mods), refIdx(rule, mods)>>

\* the edge <<from, to>> of a rule: successors[from].push_back(to)
RuleEdge(rule, mods) ==
  IF rule.type = "before"
  THEN <<srcIdx(rule, mods), refIdx(rule, mods)>>
  ELSE <<refIdx(rule, mods), srcIdx(rule, mods)>>

\* the edges in the order of the rules
RuleEdges(rules, mods) ==
  LET applied == SelectSeq(rules, LAMBDA r : RuleApplies(r, mods))
  IN [k \in 1..Len(applied) |-> RuleEdge(applied[k], mods)]

BuildSuccessors(rules, mods) ==
  [i \in DOMAIN mods |->
     LET out == SelectSeq(RuleEdges(rules, mods), LAMBDA e : e[1] = i)
     IN [k \in 1..Len(out) |-> out[k][2]]]

BuildPredecessors(rules, mods) ==
  [i \in DOMAIN mods |->
     LET in == SelectSeq(RuleEdges(rules, mods), LAMBDA e : e[2] = i)
     IN [k \in 1..Len(in) |-> in[k][1]]]

\* buildPluginPositionMap: lower-cased plugin name -> position, the last one stays
buildPluginPositionMap(sortedPlugins) ==
  [pluginLower \in {LowerStr(sortedPlugins[i]) : i \in DOMAIN sortedPlugins} |->
     Max({i \in DOMAIN sortedPlugins : LowerStr(sortedPlugins[i]) = pluginLower}) - 1]

\* getModPluginPosition: the earliest position of a plugin file of the mod
getModPluginPosition(files, pluginPosition) ==
  LET found == {pluginPosition[LowerStr(f)] :
                  f \in {g \in files : /\ ToLower(g[Len(g)]) \in {".esp", ".esm", ".esl"}
                                       /\ LowerStr(g) \in DOMAIN pluginPosition}}
  IN IF found = {} THEN INT_MAX ELSE CHOOSE x \in found : \A y \in found : x <= y

\* the elements of a set as a sequence sorted by folder name (std::sort)
RECURSIVE SortByFolder(_, _)
SortByFolder(S, folders) ==
  IF S = {} THEN <<>>
  ELSE LET first == CHOOSE i \in S : \A j \in S \ {i} : ~StrLess(folders[j], folders[i])
       IN <<first>> \o SortByFolder(S \ {first}, folders)

\* the lambda visit of generateModOrder: st holds visited, sorted and hasCycle
RECURSIVE Visit(_, _, _)
RECURSIVE VisitPredecessors(_, _, _, _)
VisitPredecessors(node, predIdx, preds, st) ==
  IF predIdx > Len(preds[node]) THEN st
  ELSE LET pred == preds[node][predIdx]
       IN IF st.visited[pred] = 0
          THEN VisitPredecessors(node, predIdx + 1, preds, Visit(pred, preds, st))
          ELSE IF st.visited[pred] = 1
          THEN VisitPredecessors(node, predIdx + 1, preds, [st EXCEPT !.hasCycle = TRUE])
          ELSE VisitPredecessors(node, predIdx + 1, preds, st)

Visit(node, preds, st) ==
  LET during == VisitPredecessors(node, 1, preds, [st EXCEPT !.visited[node] = 1])
  IN [during EXCEPT !.visited[node] = 2, !.sorted = Append(@, node)]

\* the variant that visits every listed node, visited or not
RECURSIVE VisitAllAlways(_, _, _)
VisitAllAlways(nodes, preds, st) ==
  IF nodes = <<>> THEN st
  ELSE VisitAllAlways(Tail(nodes), preds, Visit(Head(nodes), preds, st))

\* for (int sink : sinks) if (visited[sink] == 0) visit(sink);
RECURSIVE VisitAll(_, _, _)
VisitAll(nodes, preds, st) ==
  IF nodes = <<>> THEN st
  ELSE VisitAll(Tail(nodes), preds,
                IF st.visited[Head(nodes)] = 0 THEN Visit(Head(nodes), preds, st) ELSE st)

\* generateModOrder(mods, rules): the folder names, reversed post-order
generateModOrder(mods, rules) ==
  LET succ == BuildSuccessors(rules, mods)
      preds == BuildPredecessors(rules, mods)
      folders == modFolders(mods)
      sinks == SortByFolder({i \in DOMAIN mods : succ[i] = <<>>}, folders)
      afterSinks == VisitAll(sinks, preds,
                             [visited |-> [i \in DOMAIN mods |-> 0], sorted |-> <<>>,
                              hasCycle |-> FALSE])
      remaining == SortByFolder({i \in DOMAIN mods : afterSinks.visited[i] = 0}, folders)
      sorted == VisitAll(remaining, preds, afterSinks).sorted
  IN [k \in 1..Len(sorted) |-> folders[sorted[Len(sorted) + 1 - k]]]

\* dfsPosition[dfsOrder[i]] = i, then dfsRank[i] = dfsPosition[modFolders[i]]
DfsRank(mods, rules) ==
  LET dfsOrder == generateModOrder(mods, rules)
      folders == modFolders(mods)
  IN [i \in DOMAIN mods |->
        IF \E k \in DOMAIN dfsOrder : dfsOrder[k] = folders[i]
        THEN Max({k \in DOMAIN dfsOrder : dfsOrder[k] = folders[i]}) - 1
        ELSE i - 1]

\* the orders std::sort can leave a set in, for the comparison by tieBreaker
SortedOrders(S, tieBreaker) ==
  {q \in [1..Cardinality(S) -> S] :
     /\ \A i \in DOMAIN q : \A j \in DOMAIN q : i # j => q[i] # q[j]
     /\ \A i \in DOMAIN q : \A j \in DOMAIN q : i < j => tieBreaker[q[i]] <= tieBreaker[q[j]]}

\* The while loop of kahnSort: the results it can reach from a state of the
\* queue.  std::priority_queue leaves open which of several nodes of equal
\* tieBreaker is on top.
RECURSIVE KahnRuns(_, _, _, _, _)
KahnRuns(ready, inDegree, result, succ, tieBreaker) ==
  IF ready = {} THEN {result}
  ELSE UNION {
         LET left == [i \in DOMAIN inDegree |->
                        inDegree[i] - Cardinality({k \in DOMAIN succ[node] : succ[node][k] = i})]
             pushed == {i \in Range(succ[node]) : left[i] = 0}
         IN KahnRuns((ready \ {node}) \cup pushed, left, Append(result, node), succ,
                     tieBreaker)
         : node \in {i \in ready : \A j \in ready : tieBreaker[i] <= tieBreaker[j]} }

\* kahnSort(n, successors, predecessors, tieBreaker): the results it can return
kahnSort(n, succ, preds, tieBreaker) ==
  UNION { {result \o rest : rest \in SortedOrders((1..n) \ Range(result), tieBreaker)}
          : result \in KahnRuns({i \in 1..n : Len(preds[i]) = 0},
                                [i \in 1..n |-> Len(preds[i])], <<>>, succ, tieBreaker) }

\* the rank of each index after std::stable_sort of 0..n-1 by a score
StableRank(score) ==
  [i \in DOMAIN score |->
     Cardinality({j \in DOMAIN score :
                    score[j] < score[i] \/ (score[j] = score[i] /\ j < i)})]

\* the rank vector of an order of the indices: rank[order[i]] = i
RankOf(order) == [i \in DOMAIN order |-> (CHOOSE k \in DOMAIN order : order[k] = i) - 1]

\* combinedScore times 6: (2 dfs + 2 kahn + 1.5 plugin + 0.5 collection), in
\* halves to stay in the integers; the division by totalWeight keeps the order
combinedScore(dfs, kahn, plugin) ==
  [i \in DOMAIN dfs |-> 4 * dfs[i] + 4 * kahn[i] + 3 * plugin[i] + (i - 1)]

\* what the model draws the collection from
SortModCatalogue ==
  { [name |-> <<"A">>, logicalFilename |-> <<"a">>, md5 |-> <<"m1">>,
     folderName |-> <<"a", "1">>],
    [name |-> <<"B">>, logicalFilename |-> <<"b">>, md5 |-> <<"m2">>,
     folderName |-> <<"b", "1">>],
    [name |-> <<"c">>, logicalFilename |-> <<>>, md5 |-> <<"m3">>, folderName |-> <<>>],
    [name |-> <<"A", "2">>, logicalFilename |-> <<"a">>, md5 |-> <<"m4">>,
     folderName |-> <<"a", "2">>] }

\* the ends a rule can name: a logical name, with or without an md5, or an md5 alone
RuleEnds ==
  { [logicalName |-> <<"a">>, md5 |-> <<>>], [logicalName |-> <<"b">>, md5 |-> <<"m1">>],
    [logicalName |-> <<>>, md5 |-> <<"m3">>] }

RuleCatalogue ==
  {[type |-> t, sourceMd5 |-> src.md5, sourceLogicalName |-> src.logicalName,
    referenceMd5 |-> ref.md5, referenceLogicalName |-> ref.logicalName]
     : t \in {"before", "after"}, src \in RuleEnds, ref \in RuleEnds}

\* the LOOT order of the plugins, and what the mod folders can hold
sortedPlugins == << <<"A", ".esp">>, <<"b", ".esm">> >>
PluginLayouts ==
  { [i \in 1..NumSortMods |-> {}],
    [i \in 1..NumSortMods |-> IF i = 1 THEN {<<"B", ".esm">>}
                              ELSE IF i = 2 THEN {<<"a", ".ESP">>, <<"b", ".esm">>, <<"c", ".txt">>}
                              ELSE {}] }

SortInit ==
  /\ sortPc = "build"
  /\ sortMods \in {m \in [1..NumSortMods -> SortModCatalogue] :
                     \A i \in 1..NumSortMods : \A j \in 1..NumSortMods : i # j => m[i] # m[j]}
  /\ sortRules \in [1..MaxRules -> RuleCatalogue]
  /\ sortPluginFiles \in PluginLayouts
  /\ modPluginPos = <<>>
  /\ successors = <<>>
  /\ predecessors = <<>>
  /\ dfsRank = <<>>
  /\ kahnRank = <<>>
  /\ finalIndices = <<>>
  /\ modOrder = <<>>
  /\ DriverIdle
  /\ RateIdle
  /\ ScanIdle
  /\ FomodIdle
  /\ TreeIdle
  /\ GamePathIdle
  /\ HttpIdle
  /\ FomodParserIdle

\* "Build lookup maps", "Pre-compute plugin positions", "Build adjacency lists"
SortBuild ==
  /\ sortPc = "build"
  /\ modPluginPos' = [i \in DOMAIN sortMods |->
                        getModPluginPosition(sortPluginFiles[i],
                                             buildPluginPositionMap(sortedPlugins))]
  /\ successors' = BuildSuccessors(sortRules, sortMods)
  /\ predecessors' = BuildPredecessors(sortRules, sortMods)
  /\ sortPc' = "dfs"
  /\ UNCHANGED <<sortMods, sortRules, sortPluginFiles, dfsRank, kahnRank, finalIndices,
                 modOrder, otherThanSort>>

\* "Method 1: DFS Sort"
SortDfs ==
  /\ sortPc = "dfs"
  /\ dfsRank' = DfsRank(sortMods, sortRules)
  /\ sortPc' = "kahn"
  /\ UNCHANGED <<sortMods, sortRules, sortPluginFiles, modPluginPos, successors,
                 predecessors, kahnRank, finalIndices, modOrder, otherThanSort>>

\* "Method 2: Kahn's Algorithm (topological sort with plugin tie-breaking)"
SortKahn ==
  /\ sortPc = "kahn"
  /\ \E kahnIndices \in kahnSort(Len(sortMods), successors, predecessors, modPluginPos) :
       kahnRank' = RankOf(kahnIndices)
  /\ sortPc' = "final"
  /\ UNCHANGED <<sortMods, sortRules, sortPluginFiles, modPluginPos, successors,
                 predecessors, dfsRank, finalIndices, modOrder, otherThanSort>>

\* the variant that returns the folders in the order of finalIndices
FoldersInOrder(final, folders) == [k \in DOMAIN final |-> folders[final[k]]]

\* "Build result - MO2: Top = Winner, so reverse the order"
ReversedFolders(final, folders) ==
  [k \in DOMAIN final |-> folders[final[Len(final) + 1 - k]]]

\* Methods 3 and 4, the combined score and rank, the final kahnSort and the
\* reversed result
SortFinal ==
  /\ sortPc = "final"
  /\ LET pluginRank == StableRank(modPluginPos)
         combinedRank == StableRank(combinedScore(dfsRank, kahnRank, pluginRank))
         n == Len(sortMods)
     IN \E final \in kahnSort(n, successors, predecessors, combinedRank) :
          /\ finalIndices' = final
          /\ modOrder' = ReversedFolders(final, modFolders(sortMods))
  /\ sortPc' = "done"
  /\ UNCHANGED <<sortMods, sortRules, sortPluginFiles, modPluginPos, successors,
                 predecessors, dfsRank, kahnRank, otherThanSort>>

SortNext ==
  \/ SortBuild
  \/ SortDfs
  \/ SortKahn
  \/ SortFinal

SpecSort == SortInit /\ [][SortNext]_vars

(***************************************************************************)
(* SpecSortFour: the same generator on collections of four mods A, B, C, D *)
(* in any descriptor order, without rules or with the two rules            *)
(* "A before C" and "D after B".                                           *)
(***************************************************************************)
FourMods ==
  { [name |-> <<"A">>, logicalFilename |-> <<"a">>, md5 |-> <<"m1">>,
     folderName |-> <<"a", "1">>],
    [name |-> <<"B">>, logicalFilename |-> <<"b">>, md5 |-> <<"m2">>,
     folderName |-> <<"b", "1">>],
    [name |-> <<"C">>, logicalFilename |-> <<"c">>, md5 |-> <<"m3">>,
     folderName |-> <<"c", "1">>],
    [name |-> <<"D">>, logicalFilename |-> <<"d">>, md5 |-> <<"m4">>,
     folderName |-> <<"d", "1">>] }

ABeforeC == [type |-> "before", sourceMd5 |-> <<>>, sourceLogicalName |-> <<"a">>,
             referenceMd5 |-> <<>>, referenceLogicalName |-> <<"c">>]
DAfterB == [type |-> "after", sourceMd5 |-> <<>>, sourceLogicalName |-> <<"d">>,
            referenceMd5 |-> <<>>, referenceLogicalName |-> <<"b">>]

FourRuleLists == {<<>>, <<ABeforeC, DAfterB>>, <<DAfterB, ABeforeC>>}

FourPluginLayouts ==
  { [i \in 1..Cardinality(FourMods) |-> {}],
    [i \in 1..Cardinality(FourMods) |-> IF i = 1 THEN {<<"b", ".esm">>}
                                        ELSE IF i = 2 THEN {<<"a", ".esp">>}
                                        ELSE {}] }

SortFourInit ==
  /\ sortPc = "build"
  /\ sortMods \in {m \in [1..Cardinality(FourMods) -> FourMods] :
                     \A i \in DOMAIN m : \A j \in DOMAIN m : i # j => m[i] # m[j]}
  /\ sortRules \in FourRuleLists
  /\ sortPluginFiles \in FourPluginLayouts
  /\ modPluginPos = <<>>
  /\ successors = <<>>
  /\ predecessors = <<>>
  /\ dfsRank = <<>>
  /\ kahnRank = <<>>
  /\ finalIndices = <<>>
  /\ modOrder = <<>>
  /\ DriverIdle
  /\ RateIdle
  /\ ScanIdle
  /\ FomodIdle
  /\ TreeIdle
  /\ GamePathIdle
  /\ HttpIdle
  /\ FomodParserIdle

SpecSortFour == SortFourInit /\ [][SortNext]_vars

(***************************************************************************)
(* SpecTree: the files of one install.  A path is a sequence of names, a   *)
(* name a sequence of symbols; the disk is the set of directories and the  *)
(* set of regular files.  Names of files end in an extension and names of  *)
(* folders have none, so no copy meets an entry of the other kind.  File   *)
(* contents are not part of the state.                                     *)
(***************************************************************************)
extractPath == << <<"tmp">> >>
destModPath == << <<"mods">> >>

parent_path(p) == SubSeq(p, 1, Len(p) - 1)
filename(p) == p[Len(p)]

\* p is d or lies below d
Within(p, d) == Len(p) >= Len(d) /\ SubSeq(p, 1, Len(d)) = d

\* the path p, which lies within from, moved to the same place within to
Rebase(p, from, to) == to \o SubSeq(p, Len(from) + 1, Len(p))

\* the place a path names once the system has followed its ".." components
RECURSIVE Resolve(_)
Resolve(p) ==
  IF p = <<>> THEN <<>>
  ELSE LET before == Resolve(parent_path(p))
       IN IF filename(p) = <<"..">>
          THEN (IF before = <<>> THEN <<>> ELSE parent_path(before))
          ELSE Append(before, filename(p))

\* the root, <<>>, is a directory that is always there
exists(fs, p) == p = <<>> \/ p \in fs.dirs \/ p \in fs.files
is_directory(fs, p) == p = <<>> \/ p \in fs.dirs

\* the entries of directory d
Entries(fs, d) == {p \in fs.dirs \cup fs.files : Len(p) = Len(d) + 1 /\ parent_path(p) = d}

\* fs::create_directories; it throws when a prefix is a regular file
create_directories(fs, p) ==
  IF \E k \in 1..Len(p) : SubSeq(p, 1, k) \in fs.files THEN fs
  ELSE [fs EXCEPT !.dirs = @ \cup {SubSeq(p, 1, k) : k \in 1..Len(p)}]

\* fs::copy_file(from, to, overwrite_existing)
copy_file(fs, from, to) ==
  IF is_directory(fs, to) \/ ~is_directory(fs, parent_path(to)) THEN fs
  ELSE [fs EXCEPT !.files = @ \cup {to}]

\* fs::rename: a file replaces a file, a directory moves with all below it; a
\* file onto a directory or a directory onto a file or onto a directory that
\* is not empty throws
rename(fs, from, to) ==
  IF \/ (exists(fs, to) /\ is_directory(fs, from) # is_directory(fs, to))
     \/ (is_directory(fs, from) /\ is_directory(fs, to) /\ Entries(fs, to) # {})
     \/ ~is_directory(fs, parent_path(to))
  THEN fs
  ELSE [dirs |-> {p \in fs.dirs : ~Within(p, from)}
                   \cup {Rebase(p, from, to) : p \in {q \in fs.dirs : Within(q, from)}},
        files |-> {p \in fs.files : ~Within(p, from)}
                    \cup {Rebase(p, from, to) : p \in {q \in fs.files : Within(q, from)}}]

\* fs::remove_all
remove_all(fs, p) ==
  [dirs |-> {q \in fs.dirs : ~Within(q, p)}, files |-> {q \in fs.files : ~Within(q, p)}]

\* fs::remove of a directory: it throws when the directory is not empty
remove(fs, p) == IF Entries(fs, p) = {} THEN remove_all(fs, p) ELSE fs

\* fs::copy(from, to, recursive | overwrite_existing) into a fresh destination
copy(fs, from, to) ==
  [dirs |-> fs.dirs \cup {Rebase(p, from, to) : p \in {q \in fs.dirs : Within(q, from)}},
   files |-> fs.files \cup {Rebase(p, from, to) : p \in {q \in fs.files : Within(q, from)}}]

\* the names of the model, in the order a directory iterator lists them when
\* listUp holds; it lists them in the opposite order otherwise
NameOrder ==
  << <<"..", "\\", "a", ".nif">>, <<"00">>, <<"01">>, <<"Data">>, <<"Meshes">>, <<"Meshes", "\\", "a", ".nif">>,
     <<"a", ".nif">>, <<"b", ".nif">>, <<"data">>, <<"install", ".esp">>, <<"meshes">>, <<"mods">>,
     <<"r", ".txt">>, <<"tmp">> >>

NameRank(name) == CHOOSE k \in DOMAIN NameOrder : NameOrder[k] = name

\* the paths of a set in listing order
RECURSIVE InOrder(_, _)
InOrder(S, up) ==
  IF S = {} THEN <<>>
  ELSE LET first == CHOOSE x \in S : \A y \in S :
                       IF up THEN NameRank(filename(x)) <= NameRank(filename(y))
                       ELSE NameRank(filename(x)) >= NameRank(filename(y))
       IN <<first>> \o InOrder(S \ {first}, up)

\* fs::directory_iterator(d)
DirList(fs, d, up) == InOrder(Entries(fs, d), up)

\* std::replace(begin, end, from, to)
Replace(str, from, to) == [i \in 1..Len(str) |-> IF str[i] = from THEN to ELSE str[i]]

\* the components of a path string
RECURSIVE Components(_)
Components(str) ==
  LET pos == Find(str, <<"/">>)
  IN IF pos = npos THEN <<str>>
     ELSE <<SubSeq(str, 1, pos)>> \o Components(SubSeq(str, pos + 2, Len(str)))

\* the regular files below extractedPath whose name holds a backslash
ToFix(fs, extractedPath) ==
  {p \in fs.files : Within(p, extractedPath) /\ Find(filename(p), <<"\\">>) # npos}

\* the second loop of fixWindowsBackslashPaths
RECURSIVE FixFiles(_, _)
FixFiles(fs, toFix) ==
  IF toFix = {} THEN fs
  ELSE LET filePath == CHOOSE p \in toFix : TRUE
           fixedPath == Replace(filename(filePath), "\\", "/")
           destPath == Resolve(parent_path(filePath) \o Components(fixedPath))
           made == create_directories(fs, parent_path(destPath))
       IN FixFiles(rename(made, filePath, destPath), toFix \ {filePath})

fixWindowsBackslashPaths(fs, extractedPath) == FixFiles(fs, ToFix(fs, extractedPath))

dataFolders ==
  { <<"meshes">>, <<"textures">>, <<"scripts">>, <<"sound">>, <<"interface">>,
    <<"strings">>, <<"seq">>, <<"grass">>, <<"video">>, <<"music">>, <<"shaders">>,
    <<"shadersfx">>, <<"lodsettings">>, <<"skse">>, <<"netscriptframework">>,
    <<"edit scripts">>, <<"dialogueviews">>, <<"facegen">>, <<"caliente tools">>,
    <<"actors">>, <<"fonts">>, <<"materials">>, <<"platform">>, <<"source">>,
    <<"terrain">>, <<"trees">>, <<"vis">>, <<"distantlod">>, <<"lod">>,
    <<"dyndolod">>, <<"nemesis_engine">> }

isDataFolder(name) == LowerStr(name) \in dataFolders

isGameDataFolder(name) == LowerStr(name) = <<"data">>

junkExts ==
  {".txt", ".md", ".pdf", ".doc", ".docx", ".rtf", ".url", ".ini", ".png", ".jpg",
   ".jpeg", ".bmp", ".gif"}

junkNames ==
  {"readme", "license", "changelog", "credits", "authors", "install", "instructions"}

\* the extension is the last symbol of a name that has one
isJunkFile(name) ==
  LET lower == LowerStr(name)
  IN \/ lower[Len(lower)] \in junkExts
     \/ \E k \in DOMAIN lower : lower[k] \in junkNames

RECURSIVE detectWrapperFolder(_, _)
detectWrapperFolder(fs, currentPath) ==
  LET dirs == {p \in Entries(fs, currentPath) : is_directory(fs, p)}
      files == Entries(fs, currentPath) \ dirs
      hasSignificantFiles == \E f \in files : ~isJunkFile(filename(f))
  IN IF Cardinality(dirs) = 1 /\ ~hasSignificantFiles
     THEN LET only == CHOOSE d \in dirs : TRUE
          IN IF isGameDataFolder(filename(only)) THEN detectWrapperFolder(fs, only)
             ELSE IF isDataFolder(filename(only)) THEN currentPath
             ELSE detectWrapperFolder(fs, only)
     ELSE currentPath

\* the first directory of destDir, in listing order, whose name equals
\* folderName ignoring case; <<>> is the empty path
findExistingFolder(fs, destDir, folderName, up) ==
  LET listing == DirList(fs, destDir, up)
      hits == {k \in DOMAIN listing :
                 /\ is_directory(fs, listing[k])
                 /\ LowerStr(filename(listing[k])) = LowerStr(folderName)}
  IN IF ~is_directory(fs, destDir) \/ hits = {} THEN <<>>
     ELSE listing[CHOOSE k \in hits : \A j \in hits : k <= j]

\* copyDirMerge, and the loop over the entries of the source that it shares
\* with installFolder
RECURSIVE copyDirMerge(_, _, _, _)
RECURSIVE CopyEntries(_, _, _, _)
copyDirMerge(fs, src, dst, up) ==
  LET made == IF exists(fs, dst) THEN fs ELSE create_directories(fs, dst)
  IN CopyEntries(made, DirList(made, src, up), dst, up)

CopyEntries(fs, entries, dst, up) ==
  IF entries = <<>> THEN fs
  ELSE LET entry == Head(entries)
           itemName == filename(entry)
           existingDir == findExistingFolder(fs, dst, itemName, up)
           after == IF is_directory(fs, entry)
                    THEN IF existingDir # <<>>
                         THEN copyDirMerge(fs, entry, existingDir, up)
                         ELSE copyDirMerge(fs, entry, Append(dst, itemName), up)
                    ELSE copy_file(fs, entry, Append(dst, itemName))
       IN CopyEntries(after, Tail(entries), dst, up)

\* installFile for a <file> node whose source exists as written; an empty
\* destination is the file name of the source
installFile(fs, fileNode, srcRoot, dstRoot) ==
  LET src == fileNode.source
      dst == IF fileNode.destination = <<>> THEN <<filename(src)>>
             ELSE fileNode.destination
      sourcePath == srcRoot \o src
      destPath == Resolve(dstRoot \o dst)
  IN IF src = <<>> THEN fs
     ELSE IF exists(fs, sourcePath) /\ ~is_directory(fs, sourcePath)
     THEN copy_file(create_directories(fs, parent_path(destPath)), sourcePath, destPath)
     ELSE fs

\* installFolder for a <folder> node whose source exists as written
installFolder(fs, folderNode, srcRoot, dstRoot, up) ==
  LET src == folderNode.source
      sourcePath == srcRoot \o src
      destPath == Resolve(dstRoot \o folderNode.destination)
  IN IF src = <<>> THEN fs
     ELSE IF exists(fs, sourcePath) /\ is_directory(fs, sourcePath)
     THEN LET made == create_directories(fs, destPath)
          IN CopyEntries(made, DirList(made, sourcePath, up), destPath, up)
     ELSE fs

\* the loop of flattenDataFolder over the entries of the Data folder
RECURSIVE MoveEntries(_, _, _, _)
MoveEntries(fs, entries, root, up) ==
  IF entries = <<>> THEN fs
  ELSE LET src == Head(entries)
           dst == Append(root, filename(src))
           after == IF exists(fs, dst) /\ is_directory(fs, src) /\ is_directory(fs, dst)
                    THEN remove_all(copyDirMerge(fs, src, dst, up), src)
                    ELSE rename(fs, src, dst)
       IN MoveEntries(after, Tail(entries), root, up)

flattenDataFolder(fs, modRoot, up) ==
  LET listing == DirList(fs, modRoot, up)
      hits == {k \in DOMAIN listing :
                 is_directory(fs, listing[k]) /\ isGameDataFolder(filename(listing[k]))}
  IN IF hits = {} THEN fs
     ELSE LET dataPath == listing[CHOOSE k \in hits : \A j \in hits : k <= j]
          IN remove(MoveEntries(fs, DirList(fs, dataPath, up), modRoot, up), dataPath)

selectVariantFolder(fs, contentPath, modName, up) ==
  LET listing == DirList(fs, contentPath, up)
      dirs == {k \in DOMAIN listing : is_directory(fs, listing[k])}
      files == {k \in DOMAIN listing :
                  ~is_directory(fs, listing[k]) /\ ~isJunkFile(filename(listing[k]))}
      hits == {k \in dirs : LowerStr(filename(listing[k])) = LowerStr(modName)}
  IN IF Cardinality(dirs) <= 1 \/ files # {} THEN contentPath
     ELSE IF hits # {} THEN listing[CHOOSE k \in hits : \A j \in hits : k <= j]
     ELSE contentPath

\* the disk that holds the given regular files and the directories above them
DiskOf(files) ==
  [dirs |-> UNION {{SubSeq(p, 1, k) : k \in 1..(Len(p) - 1)} : p \in files},
   files |-> files]

\* what the extraction of the archive leaves below extractPath
Archives ==
  { { << <<"Data">>, <<"data">>, <<"a", ".nif">> >>, << <<"meshes">>, <<"b", ".nif">> >> },
    { << <<"Data">>, <<"Meshes">>, <<"a", ".nif">> >>, << <<"meshes">>, <<"b", ".nif">> >> },
    { << <<"Data">>, <<"meshes">>, <<"a", ".nif">> >>, << <<"meshes">>, <<"b", ".nif">> >> },
    { << <<"00">>, <<"meshes">>, <<"a", ".nif">> >>, << <<"r", ".txt">> >> },
    { << <<"Meshes", "\\", "a", ".nif">> >>, << <<"meshes">>, <<"b", ".nif">> >> },
    { << <<"00">>, <<"meshes">>, <<"a", ".nif">> >>, << <<"01">>, <<"Meshes">>, <<"b", ".nif">> >> },
    { << <<"Data">>, <<"a", ".nif">> >> },
    { << <<"..", "\\", "a", ".nif">> >>, << <<"meshes">>, <<"b", ".nif">> >> },
    { << <<"00">>, <<"meshes">>, <<"a", ".nif">> >>, << <<"install", ".esp">> >> } }

ModNames == { <<"m">>, <<"01">> }

\* the destination attributes of the <file> and of the <folder> nodes
FileDestinations ==
  { <<>>, << <<"Meshes">>, <<"a", ".nif">> >>, << <<"meshes">>, <<"a", ".nif">> >>,
    << <<"..">>, <<"a", ".nif">> >> }
FolderDestinations == { <<>>, << <<"Meshes">> >>, << <<"meshes">> >> }

\* the <file> and <folder> nodes that name a file or a folder of the source
FileNodes(fs, srcRoot) ==
  [source : {Rebase(p, srcRoot, <<>>) : p \in {q \in fs.files : Within(q, srcRoot)}},
   destination : FileDestinations]
FolderNodes(fs, srcRoot) ==
  [source : {Rebase(p, srcRoot, <<>>) : p \in {q \in fs.dirs : Within(q, srcRoot) /\ q # srcRoot}},
   destination : FolderDestinations]

TreeInit ==
  /\ treePc = "extracted"
  /\ \E archive \in Archives :
       disk = DiskOf({extractPath \o p : p \in archive})
  /\ listUp \in BOOLEAN
  /\ treeModName \in ModNames
  /\ actualContent = <<>>
  /\ nodesRun = 0
  /\ DriverIdle
  /\ RateIdle
  /\ ScanIdle
  /\ FomodIdle
  /\ SortIdle
  /\ GamePathIdle
  /\ HttpIdle
  /\ FomodParserIdle

\* installMod: "Fix Windows backslash paths"
TreeFix ==
  /\ treePc = "extracted"
  /\ disk' = fixWindowsBackslashPaths(disk, extractPath)
  /\ treePc' = "fixed"
  /\ UNCHANGED <<listUp, treeModName, actualContent, nodesRun, otherThanTree>>

\* installMod: "Handle wrapper folders"
TreeDetect ==
  /\ treePc = "fixed"
  /\ actualContent' = detectWrapperFolder(disk, extractPath)
  /\ treePc' = "content"
  /\ UNCHANGED <<disk, listUp, treeModName, nodesRun, otherThanTree>>

\* installMod: "Standard install", for a copy that is complete
TreeStandard ==
  /\ treePc = "content"
  /\ LET installFrom == selectVariantFolder(disk, actualContent, treeModName, listUp)
     IN disk' = copy(create_directories(disk, destModPath), installFrom, destModPath)
  /\ treePc' = "installed"
  /\ UNCHANGED <<listUp, treeModName, actualContent, nodesRun, otherThanTree>>

\* FomodInstaller::process creates dstRoot and installs a <file> node
TreeFomodFile ==
  /\ treePc \in {"content", "fomod"}
  /\ nodesRun < MaxNodes
  /\ \E fileNode \in FileNodes(disk, actualContent) :
       disk' = installFile(create_directories(disk, destModPath), fileNode,
                           actualContent, destModPath)
  /\ treePc' = "fomod"
  /\ nodesRun' = nodesRun + 1
  /\ UNCHANGED <<listUp, treeModName, actualContent, otherThanTree>>

\* FomodInstaller::process creates dstRoot and installs a <folder> node
TreeFomodFolder ==
  /\ treePc \in {"content", "fomod"}
  /\ nodesRun < MaxNodes
  /\ \E folderNode \in FolderNodes(disk, actualContent) :
       disk' = installFolder(create_directories(disk, destModPath), folderNode,
                             actualContent, destModPath, listUp)
  /\ treePc' = "fomod"
  /\ nodesRun' = nodesRun + 1
  /\ UNCHANGED <<listUp, treeModName, actualContent, otherThanTree>>

\* installMod: "Ensure Data folder is flattened"
TreeFlatten ==
  /\ treePc \in {"installed", "fomod"}
  /\ disk' = flattenDataFolder(disk, destModPath, listUp)
  /\ treePc' = "flat"
  /\ UNCHANGED <<listUp, treeModName, actualContent, nodesRun, otherThanTree>>

\* installMod: "Cleanup"
TreeCleanup ==
  /\ treePc = "flat"
  /\ disk' = remove_all(disk, extractPath)
  /\ treePc' = "done"
  /\ UNCHANGED <<listUp, treeModName, actualContent, nodesRun, otherThanTree>>

TreeNext ==
  \/ TreeFix
  \/ TreeDetect
  \/ TreeStandard
  \/ TreeFomodFile
  \/ TreeFomodFolder
  \/ TreeFlatten
  \/ TreeCleanup

SpecTree == TreeInit /\ [][TreeNext]_vars

(***************************************************************************)
(* main: the game path handed to sortPluginsWithLoot.                      *)
(*                                                                         *)
(* Paths and lines are sequences of symbols.  A line of ModOrganizer.ini   *)
(* is a sequence in which "gamePath", "=", "@" and the carriage return are *)
(* symbols of their own, so that find("gamePath="), find("=") and the      *)
(* trimming act on them as they do on the characters.                      *)
(***************************************************************************)
mo2Path == <<"mo2">>
StockGamePath == mo2Path \o <<"/Stock Game">>
steamPath(home) == home \o <<"/.local/share/Steam/steamapps/common/Skyrim Special Edition">>

\* str.substr(pos): the characters from position pos (from 0) on
substr(str, pos) == SubSeq(str, pos + 1, Len(str))

\* while (!gamePath.empty() && (back == '\r' || back == '\n')) pop_back()
RECURSIVE TrimLineEnd(_)
TrimLineEnd(str) ==
  IF str # <<>> /\ str[Len(str)] \in {"\r", "\n"}
  THEN TrimLineEnd(SubSeq(str, 1, Len(str) - 1))
  ELSE str

\* the "@...@relative" form of a value
AtForm(value) ==
  IF value # <<>> /\ Head(value) = "@"
  THEN LET rest == substr(value, 1)
           atPos == Find(rest, <<"@">>)
       IN IF atPos # npos THEN mo2Path \o <<"/">> \o substr(rest, atPos + 1) ELSE rest
  ELSE value

\* the getline loop: the first line holding "gamePath=" sets gamePath and
\* ends the loop; with no such line gamePath keeps its value
RECURSIVE ReadIni(_, _)
ReadIni(lines, current) ==
  IF lines = <<>> THEN current
  ELSE LET line == Head(lines)
       IN IF Find(line, <<"gamePath", "=">>) # npos
          THEN AtForm(TrimLineEnd(substr(line, Find(line, <<"=">>) + 1)))
          ELSE ReadIni(Tail(lines), current)

IniLines ==
  { <<"[General]">>,
    <<"gamePath", "=">>,
    <<"gamePath", "=", "/g">>,
    <<"gamePath", "=", "/g", "\r">>,
    <<"gamePath", "=", "@", "B", "@", "s">>,
    <<"x", "=", "gamePath", "=", "/g">> }

IniFiles ==
  {[opens |-> FALSE, lines |-> <<>>]} \cup
  {[opens |-> TRUE, lines |-> l] :
     l \in {<<>>} \cup {<<a>> : a \in IniLines} \cup {<<a, b>> : a, b \in IniLines}}

HomeValues == {<<>>, <<"/h">>}

GamePaths ==
  {StockGamePath, <<"/g">>, mo2Path \o <<"/", "s">>} \cup {steamPath(h) : h \in HomeValues}

GamePathInit ==
  /\ gpPc = "stock"
  /\ gpExists \in SUBSET GamePaths
  /\ gpIni \in IniFiles
  /\ gpHome \in HomeValues
  /\ gamePath = <<>>
  /\ gpUsed = "none"
  /\ DriverIdle
  /\ RateIdle
  /\ ScanIdle
  /\ FomodIdle
  /\ SortIdle
  /\ TreeIdle
  /\ HttpIdle
  /\ FomodParserIdle

\* std::string gamePath = mo2Path + "/Stock Game"; if (!fs::exists(gamePath))
GamePathStock ==
  /\ gpPc = "stock"
  /\ gamePath' = StockGamePath
  /\ gpPc' = IF StockGamePath \in gpExists THEN "steam" ELSE "ini"
  /\ UNCHANGED <<gpExists, gpIni, gpHome, gpUsed, otherThanGamePath>>

\* std::ifstream iniFile(mo2Path + "/ModOrganizer.ini"); if (iniFile) { ... }
GamePathIni ==
  /\ gpPc = "ini"
  /\ gamePath' = IF gpIni.opens THEN ReadIni(gpIni.lines, gamePath) ELSE gamePath
  /\ gpPc' = "steam"
  /\ UNCHANGED <<gpExists, gpIni, gpHome, gpUsed, otherThanGamePath>>

\* if (gamePath.empty()) { ... if (fs::exists(steamPath)) gamePath = steamPath; }
GamePathSteam ==
  /\ gpPc = "steam"
  /\ gamePath' = IF gamePath = <<>> /\ steamPath(gpHome) \in gpExists
                 THEN steamPath(gpHome)
                 ELSE gamePath
  /\ gpPc' = "use"
  /\ UNCHANGED <<gpExists, gpIni, gpHome, gpUsed, otherThanGamePath>>

\* if (!gamePath.empty() && fs::exists(gamePath)) sortPluginsWithLoot else
\* the collection order
GamePathUse ==
  /\ gpPc = "use"
  /\ gpUsed' = IF gamePath # <<>> /\ gamePath \in gpExists THEN "loot" ELSE "collection"
  /\ gpPc' = "done"
  /\ UNCHANGED <<gpExists, gpIni, gpHome, gamePath, otherThanGamePath>>

GamePathNext ==
  \/ GamePathStock
  \/ GamePathIni
  \/ GamePathSteam
  \/ GamePathUse

SpecGamePath == GamePathInit /\ [][GamePathNext]_vars

(***************************************************************************)
(* httpGet.                                                                *)
(*                                                                         *)
(* One call, with the default maxRetries.  Each pass of the loop draws     *)
(* whether curl_easy_init gives a handle and what curl_easy_perform        *)
(* returns; a transfer that fails may have written part of a body into     *)
(* response before it failed.                                              *)
(***************************************************************************)
httpMaxRetries == 3
RetryPauseSeconds == 2

CurlCodes == {"CURLE_OK", "CURLE_OPERATION_TIMEDOUT", "CURLE_COULDNT_CONNECT",
              "CURLE_COULDNT_RESOLVE_HOST", "CURLE_GOT_NOTHING", "CURLE_SSL_CONNECT_ERROR"}

\* every CURLcode but CURLE_OK
RetryableAll == CurlCodes \ {"CURLE_OK"}

\* res == CURLE_OPERATION_TIMEDOUT || res == CURLE_COULDNT_CONNECT ||
\* res == CURLE_COULDNT_RESOLVE_HOST || res == CURLE_GOT_NOTHING
Retryable == {"CURLE_OPERATION_TIMEDOUT", "CURLE_COULDNT_CONNECT",
              "CURLE_COULDNT_RESOLVE_HOST", "CURLE_GOT_NOTHING"}

Bodies == {<<>>, <<"part">>}

HttpInit ==
  /\ httpPc = "loop"
  /\ httpAttempt = 1
  /\ httpResponse = <<>>
  /\ httpLog = <<>>
  /\ DriverIdle
  /\ RateIdle
  /\ ScanIdle
  /\ FomodIdle
  /\ SortIdle
  /\ TreeIdle
  /\ GamePathIdle
  /\ FomodParserIdle

\* one pass of for (attempt = 1; attempt <= maxRetries; ++attempt) up to its
\* return or its sleep
HttpPass ==
  /\ httpPc = "loop"
  /\ httpAttempt <= httpMaxRetries
  /\ \E curl \in BOOLEAN, res \in CurlCodes, written \in Bodies :
       IF ~curl
       THEN /\ httpResponse' = <<>>
            /\ httpLog' = Append(httpLog, [kind |-> "noHandle", attempt |-> httpAttempt])
            /\ httpAttempt' = httpAttempt + 1
            /\ httpPc' = "loop"
       ELSE /\ httpLog' = Append(httpLog, [kind |-> "GET", attempt |-> httpAttempt, res |-> res])
            /\ httpResponse' = IF res = "CURLE_OK" THEN <<"body">> ELSE written
            /\ httpPc' = IF res # "CURLE_OK" /\ res \in Retryable /\ httpAttempt < httpMaxRetries
                         THEN "sleep"
                         ELSE "returned"
            /\ UNCHANGED httpAttempt
  /\ UNCHANGED otherThanHttp

\* std::this_thread::sleep_for(std::chrono::seconds(2)); continue;
HttpSleep ==
  /\ httpPc = "sleep"
  /\ httpLog' = Append(httpLog, [kind |-> "sleep", seconds |-> RetryPauseSeconds])
  /\ httpAttempt' = httpAttempt + 1
  /\ httpPc' = "loop"
  /\ UNCHANGED <<httpResponse, otherThanHttp>>

\* the loop ends with attempt > maxRetries: return response
HttpLoopEnd ==
  /\ httpPc = "loop"
  /\ httpAttempt > httpMaxRetries
  /\ httpPc' = "returned"
  /\ UNCHANGED <<httpAttempt, httpResponse, httpLog, otherThanHttp>>

HttpNext ==
  \/ HttpPass
  \/ HttpSleep
  \/ HttpLoopEnd

SpecHttp == HttpInit /\ [][HttpNext]_vars

\* the call is sequential code whose transfer is bounded by CURLOPT_TIMEOUT:
\* a step that can be taken is taken
SpecHttpFair == SpecHttp /\ WF_vars(HttpNext)

(***************************************************************************)
(* FomodParser::process.                                                   *)
(*                                                                         *)
(* The documents have the shape of the one in test_fomod.cpp: two step     *)
(* elements below <installSteps>, each with a group named "Read first",    *)
(* the second one also with the group "Color Variation".  The tag of the   *)
(* step elements is part of the document.  Every <file> names a source     *)
(* that exists below sourceRoot, as the test arranges, and every plugin    *)
(* has a file of its own, so a file below destRoot tells which plugin      *)
(* installed it.  Names are sequences of symbols, with the capital letter  *)
(* of "Simplified" a symbol of its own.                                    *)
(***************************************************************************)
InstallationNotice == <<"Installation Notice">>
ChooseMarkerVersion == <<"Choose Marker version">>
ReadFirst == <<"Read first">>
ColorVariation == <<"Color Variation">>
Proceed == <<"Proceed">>
Simplified == <<"S", "implified">>
simplifiedLower == <<"s", "implified">>
NonColored == <<"Non colored Main Cities">>

\* <plugin name=...> with its <file source=... destination=...>
TestPlugin(stepNo, name) == [name |-> name, file |-> <<stepNo, name>>]

XmlDocuments ==
  { [ parsed |-> parsed,
      steps |-> << [ tag |-> tag, name |-> InstallationNotice,
                     groups |-> << [name |-> ReadFirst,
                                    plugins |-> [k \in DOMAIN first |-> TestPlugin(1, first[k])]] >> ],
                   [ tag |-> tag, name |-> ChooseMarkerVersion,
                     groups |-> << [name |-> ReadFirst,
                                    plugins |-> [k \in DOMAIN second |-> TestPlugin(2, second[k])]],
                                   [name |-> ColorVariation,
                                    plugins |-> <<TestPlugin(2, NonColored)>>] >> ] >>,
      required |-> required ] :
    parsed \in BOOLEAN,
    tag \in {"step", "installStep"},
    first \in {<<Proceed>>, <<Proceed, Simplified>>},
    second \in {<<Simplified>>, <<Simplified, Proceed>>},
    required \in {<<>>, << <<0, <<"required">> >> >>} }

ChoiceLists == {<<>>, <<Proceed>>, <<Simplified>>, <<simplifiedLower>>, <<Proceed, Simplified>>}

JsonChoices ==
  { [ options |-> << [ name |-> InstallationNotice,
                       groups |-> << [name |-> ReadFirst, choices |-> a] >> ],
                     [ name |-> ChooseMarkerVersion,
                       groups |-> << [name |-> ReadFirst, choices |-> b],
                                     [name |-> ColorVariation, choices |-> c] >> ] >> ] :
    a \in ChoiceLists, b \in ChoiceLists, c \in {<<>>, <<NonColored>>} }

\* Element::findChildren(name): the children with exactly that tag
findChildren(children, name) == SelectSeq(children, LAMBDA child : child.tag = name)

\* std::multimap<std::string, std::string> userSelections: the pairs
\* (group name, option name) of every step of the choices
userSelections(choices) ==
  UNION { UNION { { <<group.name, group.choices[c]>> :
                      c \in {d \in DOMAIN group.choices :
                               group.name # <<>> /\ group.choices[d] # <<>>} } :
                  group \in Range(step.groups) } :
          step \in Range(choices.options) }

\* bool isSelected: some option of equal_range(groupName) equals the plugin
\* name up to case
isSelected(selections, groupName, pluginName) ==
  \E pair \in selections : pair[1] = groupName /\ iequals(pluginName, pair[2])

\* "2. Execute Install Steps": the files of the plugins that are installed
InstalledBySteps(xml, selections) ==
  LET steps == findChildren(xml.steps, "installStep")
  IN UNION { UNION { { plugin.file :
                         plugin \in {p \in Range(group.plugins) :
                                       isSelected(selections, group.name, p.name)} } :
                     group \in Range(step.groups) } :
             step \in Range(steps) }

FomodParserInit ==
  /\ fpPc = "start"
  /\ fpLocated \in BOOLEAN
  /\ fpXml \in XmlDocuments
  /\ fpChoices \in JsonChoices
  /\ fpDest = {}
  /\ fpResult = "none"
  /\ DriverIdle
  /\ RateIdle
  /\ ScanIdle
  /\ FomodIdle
  /\ SortIdle
  /\ TreeIdle
  /\ GamePathIdle
  /\ HttpIdle

\* static bool process(sourceRoot, destRoot, choices)
FomodParserProcess ==
  /\ fpPc = "start"
  /\ fpPc' = "done"
  /\ IF ~fpLocated \/ ~fpXml.parsed
     THEN /\ fpResult' = "false"
          /\ UNCHANGED fpDest
     ELSE /\ fpDest' = fpDest \cup InstalledBySteps(fpXml, userSelections(fpChoices))
                              \cup Range(fpXml.required)
          /\ fpResult' = "true"
  /\ UNCHANGED <<fpLocated, fpXml, fpChoices, otherThanFomodParser>>

FomodParserNext == FomodParserProcess

SpecFomodParser == FomodParserInit /\ [][FomodParserNext]_vars

(***************************************************************************)
(* Claims about the driver.                                                *)
(***************************************************************************)
DownloadRunning == \E t \in Threads : dw[t].pc \in {"fetch", "work"}
InstallRunning == \E t \in Threads : iw[t].pc \in {"fetch", "work"}
\* download tasks (by mod index) that have no archive
WithoutArchive == Range(downloadTasks) \ modArchivePaths

\* C3: once the download passes are over, each retry pass k = 1..3 has attempted
\* exactly the tasks that failed in pass k-1 (so nothing that had succeeded, and
\* everything that was still failed).
C3_RetryAttemptsExactlyFailed ==
  pc = "report" => \A k \in 1..maxRetries : attempted[k] = failedIn[k - 1]

\* C4: when Phase 2 is entered with a download task that has no archive, the
\* driver has listed exactly the tasks without an archive and has either
\* prompted the user or, under --yes, announced that it continues.
C4_NoSilentPhase2 ==
  (pc = "phase2" /\ WithoutArchive # {}) =>
     /\ reported = WithoutArchive
     /\ asked = (IF autoYes THEN "auto" ELSE "prompt")

\* C7: phases never overlap.  Once main() is past the join of a download pass no
\* download worker runs; an install worker runs only in Phase 2, after every
\* download worker has returned; plugins.txt and modlist.txt are generated only
\* after every install worker has returned and every install task has been run.
C7_PhasesDoNotOverlap ==
  /\ pc \notin {"phase1b", "pass"} => ~DownloadRunning
  /\ InstallRunning => (pc = "install" /\ ~DownloadRunning)
  /\ (pc \in {"generate", "modlist", "summary"} \/ generated[1] \/ generated[2]) =>
        /\ ~InstallRunning
        /\ ~DownloadRunning
        /\ \A k \in 1..Len(installTasks) : Len(installLog[k]) >= 1
C7_Witness ==
  /\ generated = <<TRUE, FALSE>>
  /\ Range(downloadTasks) \cap Range(installTasks) # {}
  /\ Len(installTasks) >= 2

\* C9: no install task is run twice; after the pool has joined every install
\* task has been run exactly once, whatever happened to the others, and
\* g_installed + g_failed equals the number of install tasks.
C9_InstallTasksIndependent ==
  /\ \A k \in 1..Len(installLog) : Len(installLog[k]) <= 1
  /\ pc \in {"generate", "modlist", "summary"} =>
        /\ \A k \in 1..Len(installTasks) : Len(installLog[k]) = 1
        /\ g_installed + g_failed = Len(installTasks)
C9_Witness ==
  /\ pc = "generate"
  /\ g_failed >= 1
  /\ g_installed >= 1
  /\ \E k \in 1..Len(installTasks) :
       /\ installLog[k][1].counted = "failed"
       /\ \E j \in (k + 1)..Len(installTasks) : installLog[j][1].counted = "installed"

\* C10: an install task whose FomodInstaller::process returned false is counted
\* as failed (g_failed incremented, g_installed not).
C10_FomodFailureCounted ==
  \A k \in 1..Len(installLog) : \A j \in 1..Len(installLog[k]) :
     installLog[k][j].processFailed => installLog[k][j].counted = "failed"

\* C11: a descriptor whose top-level JSON has no "mods" member is rejected:
\* CollectionParser::parse fails, the driver exits with a non-zero code, and
\* neither plugins.txt nor modlist.txt is written.
C11_MissingModsRejected ==
  descriptor = "noMods" =>
     /\ parseResult # "true"
     /\ pc = "exit" => exitCode # 0
     /\ generated = <<FALSE, FALSE>>

\* mods of the collection that the scan skipped
SkippedMods == CollectionMods(descriptor) \ (Range(downloadTasks) \cup modArchivePaths)

\* C12: whenever the driver has reached the final summary, its exit code is 0
\* if and only if the install-failure counter is 0, whatever the number of
\* failed downloads and of skipped mods.
C12_ExitCodeIffNoInstallFailure ==
  (pc = "exit" /\ generated[2]) => ((exitCode = 0) <=> (g_failed = 0))

\* the driver has returned 0 from the summary although a download had failed
\* and a mod had been skipped
C12_Witness ==
  /\ pc = "exit"
  /\ generated[2]
  /\ exitCode = 0
  /\ g_installed >= 1
  /\ WithoutArchive # {}
  /\ SkippedMods # {}

(***************************************************************************)
(* Claims about the API client.                                            *)
(***************************************************************************)
\* C8: any two requests sent through the client start at least 100 ms apart.
C8_RequestsSpaced ==
  \A i \in 1..Len(requestTimes) : \A j \in 1..Len(requestTimes) :
     i < j => requestTimes[j] - requestTimes[i] >= RateLimitMs

(***************************************************************************)
(* Claims about the archive scan and the install tasks.                    *)
(***************************************************************************)
\* C5: a Nexus mod whose expected size is present (> 0) is given a file of the
\* downloads folder as its archive by the scan only if the file has exactly
\* that size; otherwise the mod gets a DownloadTask.
C5_ReuseIsSizeExact ==
  scanPc = "download" /\ scanPos = 0 =>
     \A i \in DOMAIN scanArchivePaths :
        LET mod == scanMods[i + 1]
        IN (~IsDirectDownload(mod) /\ mod.fileSize > 0) =>
              FileSizeOf(downloadsDir, scanArchivePaths[i]) = mod.fileSize

\* C6: no two install tasks handed to the Phase 2 pool have the same
\* destination mod folder.
C6_DestinationsDistinct ==
  scanPc = "built" =>
     \A i \in 1..Len(scanInstallTasks) : \A j \in 1..Len(scanInstallTasks) :
        i # j => scanInstallTasks[i].destModPath # scanInstallTasks[j].destModPath

\* the file name begins with {logicalFilename}-{modId}-, as it is or with the
\* Creation Club prefix stripped from the logical name (rules 1 and 2)
NamedForMod(fname, mod) ==
  LET logicalLower == LowerStr(mod.logicalFilename)
      ccPrefix == <<"creation club - ">>
      ccPos == Find(logicalLower, ccPrefix)
      stripped == SubSeq(logicalLower, 1, ccPos)
                    \o SubSeq(logicalLower, ccPos + Len(ccPrefix) + 1, Len(logicalLower))
  IN /\ logicalLower # <<>>
     /\ \/ Find(LowerStr(fname), logicalLower \o ModIdPattern(mod)) = 0
        \/ ccPos # npos /\ Find(LowerStr(fname), stripped \o ModIdPattern(mod)) = 0

\* the file contains -{modId}- and has exactly the expected size (rule 3)
SizedForMod(file, mod) ==
  /\ Find(file.name, ModIdPattern(mod)) # npos
  /\ mod.fileSize > 0
  /\ file.size = mod.fileSize

\* C17: the scan chooses by rule priority, not by listing order: when the
\* downloads folder holds a file matching rule 1 or 2 for a Nexus mod, the
\* archive chosen for the mod matches rule 1 or 2; when it holds none of these
\* but a rule-3 file, the archive chosen matches rule 3.
C17_ChosenByRulePriority ==
  scanPc = "scan" =>
     \A i \in DOMAIN scanArchivePaths :
        LET mod == scanMods[i + 1]
            chosen == scanArchivePaths[i]
            listed == Range(downloadsDir)
        IN ~IsDirectDownload(mod) =>
              /\ (\E f \in listed : NamedForMod(f.name, mod)) => NamedForMod(chosen, mod)
              /\ ((\E f \in listed : SizedForMod(f, mod))
                    /\ ~\E f \in listed : NamedForMod(f.name, mod))
                 => \E f \in listed : f.name = chosen /\ SizedForMod(f, mod)

(***************************************************************************)
(* Claims about the FOMOD engine.                                          *)
(***************************************************************************)
\* the option names the choices hold under a step name and a group name
ChoicesUnder(stepName, groupName) ==
  {on \in OptionNames :
     \E s \in DOMAIN fomodChoices : \E g \in DOMAIN fomodChoices[s].groups :
        /\ iequals(fomodChoices[s].name, stepName)
        /\ iequals(fomodChoices[s].groups[g].name, groupName)
        /\ \E c \in DOMAIN fomodChoices[s].groups[g].choices :
              fomodChoices[s].groups[g].choices[c].name = on}

\* the sources of the plugins with the given name declared in a step and group
\* of the given names
DeclaredFiles(stepName, groupName, pluginName) ==
  {f \in {PluginFile(si, 1, pi) : si \in DOMAIN fomodXml, pi \in 1..NumPlugins} :
     /\ StepNameOf(fomodXml[f.step]) = stepName
     /\ fomodXml[f.step].groups[f.group].name = groupName
     /\ fomodXml[f.step].groups[f.group].plugins[f.item].name = pluginName}

\* what C2 says of the steps S1, S2, the group G and the options X, Y
NoLeak(S1, S2, G, X, Y) ==
  /\ DeclaredFiles(S1, G, X) \subseteq fomodInstalled
  /\ DeclaredFiles(S2, G, Y) \subseteq fomodInstalled
  /\ DeclaredFiles(S1, G, Y) \cap fomodInstalled = {}
  /\ DeclaredFiles(S2, G, X) \cap fomodInstalled = {}

\* C2 as stated: when the choices select {X} under (S1, G) and {Y} under
\* (S2, G) with X different from Y, process installs the files of plugin X of
\* step S1 group G and of plugin Y of step S2 group G, and installs no file of
\* a plugin named Y in (S1, G) or named X in (S2, G).
C2_NoLeakAsStated ==
  fomodResult = "true" =>
    \A S1 \in StepNames : \A S2 \in StepNames : \A G \in GroupNames :
      LET under1 == ChoicesUnder(S1, G)
          under2 == ChoicesUnder(S2, G)
      IN \A X \in under1 : \A Y \in under2 :
           (under1 = {X} /\ under2 = {Y} /\ X # Y) => NoLeak(S1, S2, G, X, Y)

\* C2, amended: the same with X and Y different when compared without regard
\* to case, which is how process matches plugin names.
C2_NoLeakAcrossSteps ==
  fomodResult = "true" =>
    \A S1 \in StepNames : \A S2 \in StepNames : \A G \in GroupNames :
      LET under1 == ChoicesUnder(S1, G)
          under2 == ChoicesUnder(S2, G)
      IN \A X \in under1 : \A Y \in under2 :
           (under1 = {X} /\ under2 = {Y} /\ ~iequals(X, Y)) => NoLeak(S1, S2, G, X, Y)

\* process has returned for choices {a} under (s, g) and {b} under (t, g) and a
\* document whose steps s and t both declare plugins a and b in group g: the
\* file of a of step s and of b of step t are there, the other two are not.
C2_Witness ==
  /\ fomodResult = "true"
  /\ ChoicesUnder(<<"s">>, <<"g">>) = {<<"a">>}
  /\ ChoicesUnder(<<"t">>, <<"g">>) = {<<"b">>}
  /\ DeclaredFiles(<<"s">>, <<"g">>, <<"a">>) # {}
  /\ DeclaredFiles(<<"s">>, <<"g">>, <<"b">>) # {}
  /\ DeclaredFiles(<<"t">>, <<"g">>, <<"a">>) # {}
  /\ DeclaredFiles(<<"t">>, <<"g">>, <<"b">>) # {}
  /\ NoLeak(<<"s">>, <<"t">>, <<"g">>, <<"a">>, <<"b">>)

\* C13: a <dependencies> element with no flagDependency and no nested
\* dependencies evaluates to true when its operator is And or absent and to
\* false when its operator is Or; its pattern is installed accordingly.
C13_EmptyDependencies ==
  fomodResult = "true" =>
    \A k \in DOMAIN fomodPatterns :
       (/\ fomodPatterns[k].present
        /\ fomodPatterns[k].flagDependency = <<>>
        /\ fomodPatterns[k].dependencies = <<>>) =>
          /\ evaluateDependencies(fomodPatterns[k], fomodFlags)
                = (fomodPatterns[k].operator = <<>>
                     \/ iequals(fomodPatterns[k].operator, <<"A", "n", "d">>))
          /\ (PatternFile(k) \in fomodInstalled)
                = (fomodPatterns[k].operator = <<>>
                     \/ iequals(fomodPatterns[k].operator, <<"A", "n", "d">>))

(***************************************************************************)
(* Claims about the mod order.                                             *)
(***************************************************************************)
\* j can be reached from i along successors in at least one step
RECURSIVE ReachableIn(_, _, _)
ReachableIn(i, j, steps) ==
  /\ steps > 0
  /\ \E k \in DOMAIN successors[i] :
        successors[i][k] = j \/ ReachableIn(successors[i][k], j, steps - 1)

\* the resolved rule graph has no cycle
Acyclic == \A i \in DOMAIN successors : ~ReachableIn(i, i, Len(successors))

\* the line of modlist.txt (1 is the top) that holds the folder of mod i
Line(i) == CHOOSE k \in DOMAIN modOrder : modOrder[k] = modFolders(sortMods)[i]

\* C1: for a collection whose resolved rule graph is acyclic, in the order
\* generateModOrderCombined returns (top line first) every rule (before, a, b)
\* whose ends resolve to mods has a on a line below b, and every rule
\* (after, a, b) has a on a line above b.
C1_RulesHoldInModlist ==
  (sortPc = "done" /\ Acyclic) =>
     \A r \in DOMAIN sortRules :
        LET rule == sortRules[r]
        IN (/\ srcKey(rule, sortMods) \in DOMAIN logicalNameToIdx(sortMods)
            /\ refKey(rule, sortMods) \in DOMAIN logicalNameToIdx(sortMods)) =>
              /\ rule.type = "before" =>
                   Line(srcIdx(rule, sortMods)) > Line(refIdx(rule, sortMods))
              /\ rule.type = "after" =>
                   Line(srcIdx(rule, sortMods)) < Line(refIdx(rule, sortMods))

\* the order is returned for an acyclic collection with a "before" rule and an
\* "after" rule between three mods, where the collection order alone would
\* put the source of the "before" rule above its reference
C1_Witness ==
  /\ sortPc = "done"
  /\ Acyclic
  /\ \E r1 \in DOMAIN sortRules : \E r2 \in DOMAIN sortRules :
        /\ sortRules[r1].type = "before"
        /\ sortRules[r2].type = "after"
        /\ RuleApplies(sortRules[r1], sortMods)
        /\ RuleApplies(sortRules[r2], sortMods)
        /\ srcIdx(sortRules[r1], sortMods) > refIdx(sortRules[r1], sortMods)
        /\ Cardinality({srcIdx(sortRules[r1], sortMods), refIdx(sortRules[r1], sortMods),
                        srcIdx(sortRules[r2], sortMods), refIdx(sortRules[r2], sortMods)})
             = NumSortMods
        /\ Line(srcIdx(sortRules[r1], sortMods)) > Line(refIdx(sortRules[r1], sortMods))
        /\ Line(srcIdx(sortRules[r2], sortMods)) < Line(refIdx(sortRules[r2], sortMods))
\* the position of mod i in finalIndices
FinalPosition(i) == CHOOSE k \in DOMAIN finalIndices : finalIndices[k] = i

\* the edge u -> v lies on a directed cycle of the rule graph
EdgeOnCycle(u, v) == u = v \/ ReachableIn(v, u, Len(successors))

\* C14: in the final order an edge of the resolved rule graph is violated only
\* if the edge itself lies on a directed cycle; an edge on no cycle is
\* respected, also when there is a cycle elsewhere or upstream of it.
C14_OnlyCycleEdgesViolated ==
  sortPc = "done" =>
     \A u \in DOMAIN successors : \A k \in DOMAIN successors[u] :
        FinalPosition(u) > FinalPosition(successors[u][k])
           => EdgeOnCycle(u, successors[u][k])

\* the position in the collection of the mod of the given name
ModNamed(nm) == CHOOSE i \in DOMAIN sortMods : sortMods[i].name = nm

\* the collection holds exactly the rules "A before C" and "D after B"
ExampleRules == Range(sortRules) = {ABeforeC, DAfterB}

\* C15 as stated: for mods A, B, C, D whose only rules are "A before C" and
\* "D after B", modlist.txt lists A on a line above C and D on a line below B.
C15_ExampleAsStated ==
  (sortPc = "done" /\ ExampleRules) =>
     /\ Line(ModNamed(<<"A">>)) < Line(ModNamed(<<"C">>))
     /\ Line(ModNamed(<<"D">>)) > Line(ModNamed(<<"B">>))

\* C15, amended: for mods A, B, C, D whose only rules are "A before C" and
\* "D after B", modlist.txt lists A on a line below C and D on a line above B.
C15_ExampleOrder ==
  (sortPc = "done" /\ ExampleRules) =>
     /\ Line(ModNamed(<<"A">>)) > Line(ModNamed(<<"C">>))
     /\ Line(ModNamed(<<"D">>)) < Line(ModNamed(<<"B">>))

\* the order is returned for the descriptor order A, B, C, D with the two
\* rules and no plugin: C is above A and D is above B
C15_Witness ==
  /\ sortPc = "done"
  /\ ExampleRules
  /\ [i \in DOMAIN sortMods |-> sortMods[i].name] = << <<"A">>, <<"B">>, <<"C">>, <<"D">> >>
  /\ \A i \in DOMAIN modPluginPos : modPluginPos[i] = INT_MAX
  /\ Line(ModNamed(<<"C">>)) < Line(ModNamed(<<"A">>))
  /\ Line(ModNamed(<<"D">>)) < Line(ModNamed(<<"B">>))

\* the combined rank handed to the final kahnSort, from the ranks in the state
CombinedRankNow == StableRank(combinedScore(dfsRank, kahnRank, StableRank(modPluginPos)))

\* no mod folder holds a plugin
NoPlugins == \A i \in DOMAIN modPluginPos : modPluginPos[i] = INT_MAX

\* the rule graph orders neither i before j nor j before i
Unordered(i, j) ==
  /\ ~ReachableIn(i, j, Len(successors))
  /\ ~ReachableIn(j, i, Len(successors))

\* C16: when no mod contains a plugin, the combined rank handed to the final
\* Kahn pass orders the mods exactly as the descriptor lists them, and any two
\* mods the rule graph leaves unordered are emitted by that pass in descriptor
\* order.
C16_NoPluginsCollectionOrder ==
  (sortPc = "done" /\ NoPlugins) =>
     /\ CombinedRankNow = [i \in DOMAIN sortMods |-> i - 1]
     /\ \A i \in DOMAIN sortMods : \A j \in DOMAIN sortMods :
          (i < j /\ Unordered(i, j)) => FinalPosition(i) < FinalPosition(j)

\* the mods a rule end names: those of its logical filename, and those of its
\* md5 when no mod has the logical filename
EndMods(logicalName, md5) ==
  LET byName == {i \in DOMAIN sortMods : ModKey(sortMods[i]) = logicalName}
      byMd5 == {i \in DOMAIN sortMods : md5 # <<>> /\ sortMods[i].md5 = md5}
  IN IF byName # {} THEN byName ELSE byMd5

HasEdge(u, v) == \E k \in DOMAIN successors[u] : successors[u][k] = v

\* C20: each end of a ModRule is resolved by logical filename first and by md5
\* second: a rule whose source and reference can each be resolved by the
\* logical filename or by the md5 is not skipped, also when the logical
\* filename is non-empty and matches no mod.
C20_RuleEndsResolvedByNameThenMd5 ==
  sortPc \in {"dfs", "kahn", "final", "done"} =>
     \A r \in DOMAIN sortRules :
        LET rule == sortRules[r]
            srcMods == EndMods(rule.sourceLogicalName, rule.sourceMd5)
            refMods == EndMods(rule.referenceLogicalName, rule.referenceMd5)
        IN (srcMods # {} /\ refMods # {}) =>
              \E u \in srcMods : \E v \in refMods :
                 IF rule.type = "before" THEN HasEdge(u, v) ELSE HasEdge(v, u)

(***************************************************************************)
(* Claims about the files of an install.                                   *)
(***************************************************************************)
\* no two sibling directories within root have names equal ignoring case
SiblingsDistinct(fs, root) ==
  \A p \in fs.dirs : \A q \in fs.dirs :
     (Within(p, root) /\ p # q /\ parent_path(p) = parent_path(q))
        => LowerStr(filename(p)) # LowerStr(filename(q))

\* C18: wherever the FOMOD engine (a <file> or <folder> node, with or without
\* a destination attribute) or the flattening of the Data folder puts a folder
\* into a destination, a folder there that is equal ignoring case is reused:
\* a mod folder without two sibling directories equal ignoring case has none
\* after the operation.
C18_FoldersMergeIgnoringCase ==
  [][(treePc' \in {"fomod", "flat"} /\ SiblingsDistinct(disk, destModPath))
        => SiblingsDistinct(disk', destModPath)]_vars

\* the mod root holds a top-level directory named Data, ignoring case
HasTopLevelData(fs, root) ==
  \E p \in Entries(fs, root) : is_directory(fs, p) /\ isGameDataFolder(filename(p))

\* C19: applying fixWindowsBackslashPaths, detectWrapperFolder and
\* flattenDataFolder a second time to their own result changes nothing, and
\* after flattenDataFolder the mod root holds no top-level directory named Data
\* (ignoring case).
C19_PostProcessIdempotent ==
  /\ treePc = "fixed" => fixWindowsBackslashPaths(disk, extractPath) = disk
  /\ treePc \in {"content", "installed", "fomod"}
        => detectWrapperFolder(disk, actualContent) = actualContent
  /\ treePc = "flat" =>
        /\ flattenDataFolder(disk, destModPath, listUp) = disk
        /\ ~HasTopLevelData(disk, destModPath)

(***************************************************************************)
(* Claims about the stages of FomodInstaller::process.                     *)
(***************************************************************************)
\* the stage a file is installed by: 0 for requiredInstallFiles, s for the
\* plugins of step s, one more than the number of steps for the patterns
StageOf(file) ==
  IF file.kind = "required" THEN 0
  ELSE IF file.kind = "plugin" THEN file.step
  ELSE NumFomodSteps + 1

\* the pattern at position k is installed exactly if it has no dependencies or
\* its dependencies hold under the given flags
PatternsFollow(flags) ==
  \A k \in DOMAIN fomodPatterns :
     (PatternFile(k) \in Range(fomodWritten))
        <=> (~fomodPatterns[k].present \/ evaluateDependencies(fomodPatterns[k], flags))

\* the flags of all selected plugins of all steps, in document order
RECURSIVE FlagsOfSteps(_, _)
FlagsOfSteps(si, flags) ==
  IF si > Len(fomodXml) THEN flags
  ELSE FlagsOfSteps(si + 1,
                    FlagsAfter(fomodXml[si], SelectedPlugins(fomodChoices, fomodXml[si]),
                               flags))

\* C21: process copies the required files, then the files of the selected
\* plugins step by step in document order, then the files of the patterns;
\* every pattern is evaluated against the flags left after all steps; and a
\* destination written by two stages holds the file of the later stage.
C21_StagesInOrder ==
  fomodResult = "true" =>
     /\ \A i \in DOMAIN fomodWritten : \A j \in DOMAIN fomodWritten :
          i < j => StageOf(fomodWritten[i]) <= StageOf(fomodWritten[j])
     /\ PatternsFollow(FlagsOfSteps(1, <<>>))
     /\ \A d \in DOMAIN fomodContent : \A i \in DOMAIN fomodWritten :
          DestinationOf(fomodWritten[i]) = d
             => StageOf(fomodWritten[i]) <= StageOf(fomodContent[d])

\* a run in which a plugin of the second step sets the flag of a pattern and
\* the required file, a plugin file and a pattern file name one destination
C21_Witness ==
  /\ fomodResult = "true"
  /\ \E i \in DOMAIN fomodWritten :
       /\ fomodWritten[i].kind = "plugin"
       /\ fomodWritten[i].step = NumFomodSteps
       /\ DestinationOf(fomodWritten[i]) = <<"d">>
  /\ <<"d">> \in DOMAIN fomodContent
  /\ fomodContent[<<"d">>].kind = "pattern"
  /\ \E k \in DOMAIN fomodPatterns :
       /\ fomodPatterns[k].present
       /\ PatternFile(k) \in Range(fomodWritten)
       /\ ~evaluateDependencies(fomodPatterns[k], <<>>)


(***************************************************************************)
(* C22: when <mo2Path>/Stock Game does not exist and ModOrganizer.ini is   *)
(* missing or has no gamePath= line, the game path that is used is the     *)
(* default Steam library path whenever that path exists on disk.           *)
(***************************************************************************)
HasGamePathLine == gpIni.opens /\ \E k \in DOMAIN gpIni.lines : Find(gpIni.lines[k], <<"gamePath", "=">>) # npos

C22_SteamPathIsLastResort ==
  ( /\ gpPc = "done"
    /\ StockGamePath \notin gpExists
    /\ ~HasGamePathLine
    /\ steamPath(gpHome) \in gpExists )
  => (gamePath = steamPath(gpHome) /\ gpUsed = "loot")


(***************************************************************************)
(* C23: httpGet makes at most 3 transfers; a transfer is followed by       *)
(* another one only when it failed with a timeout, connection, DNS or      *)
(* empty-response error, and then a pause of 2 seconds lies between the    *)
(* two; any other failure is the last thing the call does; and the call    *)
(* always returns.                                                         *)
(***************************************************************************)
Transfers == {i \in DOMAIN httpLog : httpLog[i].kind = "GET"}

C23_RetryPolicy ==
  /\ Cardinality(Transfers) <= 3
  /\ \A i, j \in Transfers : i < j =>
        /\ httpLog[i].res \in {"CURLE_OPERATION_TIMEDOUT", "CURLE_COULDNT_CONNECT",
                               "CURLE_COULDNT_RESOLVE_HOST", "CURLE_GOT_NOTHING"}
        /\ \E k \in DOMAIN httpLog :
              i < k /\ k < j /\ httpLog[k].kind = "sleep" /\ httpLog[k].seconds = 2
  /\ \A i \in Transfers :
        httpLog[i].res = "CURLE_SSL_CONNECT_ERROR" => (i = Len(httpLog) /\ httpPc = "returned")

C23_RetriesAndReturns == []C23_RetryPolicy /\ <>(httpPc = "returned")

C23_Witness ==
  /\ httpPc = "returned"
  /\ Cardinality(Transfers) = 3
  /\ \E k \in DOMAIN httpLog : httpLog[k].kind = "sleep"


(***************************************************************************)
(* C24: for a ModuleConfig.xml shaped like the test's that is found and    *)
(* parsed, FomodParser::process returns true and, for every step, group    *)
(* and plugin declared under <installSteps>, if the choices select that    *)
(* plugin's name under that group of that step, the plugin's file is below *)
(* the destination afterwards.                                             *)
(***************************************************************************)
ChoicesSelect(stepName, groupName, pluginName) ==
  \E o \in DOMAIN fpChoices.options :
    /\ fpChoices.options[o].name = stepName
    /\ \E g \in DOMAIN fpChoices.options[o].groups :
         /\ fpChoices.options[o].groups[g].name = groupName
         /\ \E c \in DOMAIN fpChoices.options[o].groups[g].choices :
              iequals(fpChoices.options[o].groups[g].choices[c], pluginName)

C24_SelectedPluginsInstalled ==
  (fpPc = "done" /\ fpLocated /\ fpXml.parsed) =>
    /\ fpResult = "true"
    /\ \A s \in DOMAIN fpXml.steps : \A g \in DOMAIN fpXml.steps[s].groups :
         \A p \in DOMAIN fpXml.steps[s].groups[g].plugins :
           ChoicesSelect(fpXml.steps[s].name, fpXml.steps[s].groups[g].name,
                         fpXml.steps[s].groups[g].plugins[p].name)
             => fpXml.steps[s].groups[g].plugins[p].file \in fpDest

(***************************************************************************)
(* C25: FomodParser::process installs the file of a plugin declared under  *)
(* a step and group only if the choices select that plugin's name under    *)
(* that step and group: a selection made under another step, in a group of *)
(* the same name, installs nothing from this step.                         *)
(***************************************************************************)
C25_SelectionStaysInItsStep ==
  fpPc = "done" =>
    \A s \in DOMAIN fpXml.steps : \A g \in DOMAIN fpXml.steps[s].groups :
      \A p \in DOMAIN fpXml.steps[s].groups[g].plugins :
        fpXml.steps[s].groups[g].plugins[p].file \in fpDest
          => ChoicesSelect(fpXml.steps[s].name, fpXml.steps[s].groups[g].name,
                           fpXml.steps[s].groups[g].plugins[p].name)


(***************************************************************************)
(* C26: the archive the scan assigns to a Nexus mod (modId, fileId) is     *)
(* never a file that was downloaded for another fileId of the same modId,  *)
(* that is, a file stored under a name ending in -{modId}-{otherFileId}.7z *)
(***************************************************************************)
DownloadedFor(fname, modId, fileId) ==
  LET ending == <<"-">> \o to_string(modId) \o <<"-">> \o to_string(fileId) \o <<".7z">>
  IN /\ Len(fname) >= Len(ending)
     /\ SubSeq(fname, Len(fname) - Len(ending) + 1, Len(fname)) = ending

OtherFileIds(mod) == {1, 2, 9} \ {mod.fileId}

C26_ArchiveOfOwnFile ==
  \A i \in DOMAIN scanArchivePaths :
     LET mod == scanMods[i + 1]
     IN ~IsDirectDownload(mod) =>
          ~\E f \in OtherFileIds(mod) : DownloadedFor(scanArchivePaths[i], mod.modId, f)


(***************************************************************************)
(* C27: an install task creates, moves and overwrites files only inside    *)
(* its destination mod folder and its scratch folder: whatever the         *)
(* destination attributes of the FOMOD nodes and the names of the archive  *)
(* entries are, every file and folder on the disk lies within one of the   *)
(* two.                                                                    *)
(***************************************************************************)
C27_WritesStayInside ==
  \A p \in disk.files \cup disk.dirs : Within(p, extractPath) \/ Within(p, destModPath)


(***************************************************************************)
(* C28: for every rule graph, with cycles, self-referencing rules and      *)
(* duplicated rules among them, generateModOrder returns the folder of     *)
(* every mod exactly once, and generateModOrderCombined ends with an order *)
(* that holds every mod exactly once: each of its sorts has a result, so   *)
(* no position before the end is one it stays at.                          *)
(***************************************************************************)
EachModOnce(order, folders) ==
  /\ Len(order) = Len(folders)
  /\ \A i \in DOMAIN folders :
       Cardinality({k \in DOMAIN order : order[k] = folders[i]})
         = Cardinality({j \in DOMAIN folders : folders[j] = folders[i]})

C28_Orders ==
  /\ sortPc \in {"kahn", "final", "done"} =>
       /\ EachModOnce(generateModOrder(sortMods, sortRules), modFolders(sortMods))
       /\ {dfsRank[i] : i \in DOMAIN dfsRank} = 0..(Len(sortMods) - 1)
  /\ sortPc = "done" =>
       /\ Len(finalIndices) = Len(sortMods)
       /\ Range(finalIndices) = DOMAIN sortMods
       /\ EachModOnce(modOrder, modFolders(sortMods))

C28_EveryModOnce ==
  /\ C28_Orders
  /\ sortPc = "kahn" =>
       kahnSort(Len(sortMods), successors, predecessors, modPluginPos) # {}
  /\ sortPc = "final" =>
       kahnSort(Len(sortMods), successors, predecessors, CombinedRankNow) # {}

Cyclic == \E i, j \in DOMAIN predecessors :
            i # j /\ j \in Range(predecessors[i]) /\ i \in Range(predecessors[j])

C28_Witness == sortPc = "done" /\ Cyclic /\ ~Acyclic


(***************************************************************************)
(* C29: for an acyclic rule graph and every edge "a must precede b", the   *)
(* DFS rank and the Kahn rank that enter the combined score both put a     *)
(* before b: dfsRank[a] < dfsRank[b] and kahnRank[a] < kahnRank[b].        *)
(***************************************************************************)
C29_RanksOrientedAlike ==
  (sortPc \in {"final", "done"} /\ Acyclic) =>
     \A b \in DOMAIN predecessors : \A a \in Range(predecessors[b]) :
        dfsRank[a] < dfsRank[b] /\ kahnRank[a] < kahnRank[b]


(***************************************************************************)
(* C30: detectWrapperFolder never descends past a game file: a directory   *)
(* it has left for its single sub-directory holds no .esp, .esm, .esl,     *)
(* .bsa or .dll file, whatever the name of the file.                       *)
(***************************************************************************)
GameExts == {".esp", ".esm", ".esl", ".bsa", ".dll"}

IsGameFile(name) == ToLower(name[Len(name)]) \in GameExts

C30_GameFileStopsUnwrap ==
  treePc = "content" =>
     \A k \in Len(extractPath)..(Len(actualContent) - 1) :
        \A f \in Entries(disk, SubSeq(actualContent, 1, k)) :
           f \in disk.files => ~IsGameFile(filename(f))

====
